---- MODULE Spec2Model ----
(***************************************************************************)
(* Model of the extractive summarisation and keyword-ranking engine of     *)
(* app.py (classes NewsCollector and TextProcessor).                       *)
(*                                                                         *)
(* A Python str is modelled as a sequence of Unicode code points, so that  *)
(* character classes such as [가-힣] are the integer ranges the regular    *)
(* expressions of the source denote.  The regular expressions of the       *)
(* source are data (sequences of atoms) interpreted by a backtracking      *)
(* matcher with the priorities of Python's re module.                      *)
(***************************************************************************)
EXTENDS Integers, Sequences, FiniteSets, TLC

(***************************************************************************)
(* Characters.                                                             *)
(***************************************************************************)
\* str.isspace(), which is what \s, str.strip() and str.split() use
IsSpace(c) ==
    \/ c \in 9..13 \/ c \in 28..32 \/ c = 133 \/ c = 160 \/ c = 5760
    \/ c \in 8192..8202 \/ c = 8232 \/ c = 8233 \/ c = 8239 \/ c = 8287
    \/ c = 12288

\* [0-9]; \d on the alphabet of the model (ASCII, Hangul)
IsDigit(c) == c \in 48..57

\* [가-힣], the Hangul syllables U+AC00..U+D7A3
IsHangul(c) == c \in 44032..55203

\* [a-zA-Z]
IsLatin(c) == c \in 65..90 \/ c \in 97..122

\* \w on the alphabet of the model: alphanumerics of any script and "_"
\* (12593..12686 are the Hangul compatibility jamo, e.g. U+3142)
IsWord(c) == IsDigit(c) \/ IsLatin(c) \/ c = 95 \/ IsHangul(c) \/ c \in 12593..12686

(***************************************************************************)
(* Regular expressions: a pattern is a sequence of atoms.                  *)
(*   Lit(s)            the literal string s                                *)
(*   Rep(c, lo, lazy)  c{lo,}  (greedy)  or  c{lo,}?  (lazy)               *)
(*   RepN(c, lo, hi)   c{lo,hi} (greedy)                                   *)
(*   WB                \b                                                  *)
(* A class c is [neg, rs, cats]: the ranges rs and the categories cats     *)
(* ("s", "w", "d"), negated when neg.                                      *)
(***************************************************************************)
Cls(neg, rs, cats) == [neg |-> neg, rs |-> rs, cats |-> cats]

InClass(c, cls) ==
    cls.neg # (\/ \E r \in cls.rs : r[1] <= c /\ c <= r[2]
               \/ ("s" \in cls.cats /\ IsSpace(c))
               \/ ("w" \in cls.cats /\ IsWord(c))
               \/ ("d" \in cls.cats /\ IsDigit(c)))

Lit(s) == [t |-> "lit", s |-> s]
Rep(c, lo, lazy) == [t |-> "rep", c |-> c, lo |-> lo, bounded |-> FALSE, hi |-> lo, lazy |-> lazy]
RepN(c, lo, hi) == [t |-> "rep", c |-> c, lo |-> lo, bounded |-> TRUE, hi |-> hi, lazy |-> FALSE]
WB == [t |-> "wb"]

\* .   (any character but the newline)
Dot == Cls(TRUE, {<<10, 10>>}, {})
\* \s
Space == Cls(FALSE, {}, {"s"})
\* \d
Digit == Cls(FALSE, {}, {"d"})
\* [가-힣]
Hangul == Cls(FALSE, {<<44032, 55203>>}, {})
\* [a-zA-Z]
Latin == Cls(FALSE, {<<97, 122>>, <<65, 90>>}, {})

\* the least element of a non-empty set of integers
Min(S) == CHOOSE m \in S : \A j \in S : m <= j
Max(S) == CHOOSE m \in S : \A j \in S : m >= j

\* n, or hi when bounded and n exceeds it
Capped(n, bounded, hi) == IF bounded /\ n > hi THEN hi ELSE n

\* the number of consecutive characters of class cls from position i
\* (at most hi of them when bounded)
Run(s, i, cls, bounded, hi) ==
    Capped(Min({j \in i..(Len(s) + 1) : j = Len(s) + 1 \/ ~InClass(s[j], cls)}) - i,
           bounded, hi)

\* \b at position i: exactly one of s[i-1], s[i] is a word character
AtWordBoundary(s, i) ==
    (i > 1 /\ i - 1 <= Len(s) /\ IsWord(s[i - 1])) # (i <= Len(s) /\ IsWord(s[i]))

LitAt(s, i, l) ==
    /\ i + Len(l) - 1 <= Len(s)
    /\ \A j \in 1..Len(l) : s[i + j - 1] = l[j]

\* of the pairs <<count, end>> of a repetition, the end of the first count
\* tried whose end is a match (not 0): the greatest count of a greedy
\* repetition, the least of a lazy one; 0 when there is none
FirstEnd(ends, lazy) ==
    IF \A e \in ends : e[2] = 0 THEN 0
    ELSE (CHOOSE e \in ends :
            /\ e[2] # 0
            /\ \A f \in ends : f[2] # 0 => IF lazy THEN e[1] <= f[1] ELSE e[1] >= f[1])[2]

\* The position after the match of pat[k..] that the backtracking matcher
\* finds first at position i of s, or 0 when there is none.  A repetition
\* tries its counts in the order of its kind: a greedy one the longest
\* first, a lazy one the shortest first.
RECURSIVE MatchFrom(_, _, _, _)
MatchFrom(s, i, pat, k) ==
    IF k > Len(pat) THEN i
    ELSE CASE pat[k].t = "lit" ->
                IF LitAt(s, i, pat[k].s) THEN MatchFrom(s, i + Len(pat[k].s), pat, k + 1) ELSE 0
           [] pat[k].t = "wb" ->
                IF AtWordBoundary(s, i) THEN MatchFrom(s, i, pat, k + 1) ELSE 0
           [] pat[k].t = "rep" ->
                FirstEnd({<<c, MatchFrom(s, i + c, pat, k + 1)>> :
                             c \in pat[k].lo..Run(s, i, pat[k].c, pat[k].bounded, pat[k].hi)},
                         pat[k].lazy)

\* a, or b when a is 0
FirstNonZero(a, b) == IF a # 0 THEN a ELSE b

\* a pattern p1|p2|...: the first alternative that matches at i
RECURSIVE MatchAlt(_, _, _, _)
MatchAlt(s, i, alts, k) ==
    IF k > Len(alts) THEN 0
    ELSE FirstNonZero(MatchFrom(s, i, alts[k], 1), MatchAlt(s, i, alts, k + 1))

\* whether alternative list alts can match at i at all: its first character fits
\* (every pattern of the source begins with a literal or a one-or-more class,
\* or is tried in full)
MayStart(s, i, alts) ==
    \E k \in 1..Len(alts) :
        CASE alts[k][1].t = "lit" -> s[i] = alts[k][1].s[1]
          [] alts[k][1].t = "rep" -> alts[k][1].lo = 0 \/ InClass(s[i], alts[k][1].c)
          [] OTHER -> TRUE

\* the position after the match of alts at position j, 0 when there is none
MatchEnd(s, j, alts) == IF MayStart(s, j, alts) THEN MatchAlt(s, j, alts, 1) ELSE 0

\* one position of the scan: a non-empty match that ends at e and starts at a
\* position lo that the scan has reached is taken
Step(st, lo, e) ==
    IF lo >= st.p /\ e > lo THEN [p |-> e, ms |-> Append(st.ms, <<lo, e>>)] ELSE st

\* The scan of re.sub, re.findall and re.split over the positions lo..hi,
\* ends[j] being the end of the match at j: st.p is the position the scan has
\* reached and st.ms the matches <<start, end>> found so far, leftmost first
\* and not overlapping.  (The range is halved so that the depth of the
\* evaluation stays logarithmic.)
RECURSIVE Scan(_, _, _, _)
Scan(ends, lo, hi, st) ==
    IF st.p > hi THEN st
    ELSE IF lo = hi THEN Step(st, lo, ends[lo])
    ELSE Scan(ends, ((lo + hi) \div 2) + 1, hi, Scan(ends, lo, (lo + hi) \div 2, st))

\* the matches among the ends that a scan from the left takes
NonOverlapping(ends) ==
    IF \A j \in 1..Len(ends) : ends[j] <= j THEN <<>>
    ELSE Scan(ends, 1, Len(ends), [p |-> 1, ms |-> <<>>]).ms

\* the non-overlapping matches of alts in s, for patterns that match no empty string
Matches(s, alts) == NonOverlapping([j \in 1..Len(s) |-> MatchEnd(s, j, alts)] \o <<>>)

\* the concatenation of parts[lo..hi]
RECURSIVE Concat(_, _, _)
Concat(parts, lo, hi) ==
    IF lo > hi THEN <<>>
    ELSE IF lo = hi THEN parts[lo]
    ELSE Concat(parts, lo, (lo + hi) \div 2) \o Concat(parts, ((lo + hi) \div 2) + 1, hi)

\* the pieces of s between the matches ms
Between(s, ms) ==
    [k \in 1..(Len(ms) + 1) |->
        SubSeq(s, IF k = 1 THEN 1 ELSE ms[k - 1][2],
                  IF k <= Len(ms) THEN ms[k][1] - 1 ELSE Len(s))]

\* the pieces bs with repl between them
Glue(bs, repl) ==
    Concat([k \in 1..Len(bs) |-> IF k < Len(bs) THEN bs[k] \o repl ELSE bs[k]], 1, Len(bs))

\* s with its matches ms replaced by repl
Replaced(s, ms, repl) == IF ms = <<>> THEN s ELSE Glue(Between(s, ms), repl)

\* re.sub(alts, repl, s)
SubAlt(alts, repl, s) == Replaced(s, Matches(s, alts), repl)

\* re.sub(pattern, repl, s)
ReSub(pat, repl, s) == SubAlt(<<pat>>, repl, s)

\* the strings of s at the matches ms
Matched(s, ms) == [k \in 1..Len(ms) |-> SubSeq(s, ms[k][1], ms[k][2] - 1)]

\* re.findall(pattern, s): the matched strings, in order
ReFindAll(pat, s) == Matched(s, Matches(s, <<pat>>))

\* re.split(alts, s): the pieces between the matches
ReSplit(alts, s) == Between(s, Matches(s, alts))

\* s from the first to the last of the positions keep
Trimmed(s, keep) == IF keep = {} THEN <<>> ELSE SubSeq(s, Min(keep), Max(keep))

\* str.strip()
Strip(s) == Trimmed(s, {i \in 1..Len(s) : ~IsSpace(s[i])})

\* sub in s
Contains(s, sub) == \E i \in 1..(Len(s) - Len(sub) + 1) : LitAt(s, i, sub)

\* s.endswith(sub)
EndsWith(s, sub) == Len(s) >= Len(sub) /\ LitAt(s, Len(s) - Len(sub) + 1, sub)

\* sep.join(parts)
Join(sep, parts) == Glue(parts, sep)

(***************************************************************************)
(* The two normalizers: the substitution pipelines of                      *)
(* NewsCollector.crawl_article_content and TextProcessor.summarize_text.   *)
(* Each rule is <<pattern, replacement>>, in the order of the source.      *)
(***************************************************************************)
\* (?:[a-zA-Z]|[0-9]|[$-_@.&+]|[!*\\(\\),]|(?:%[0-9a-fA-F][0-9a-fA-F])): one
\* character of the first four alternatives; "%" is in [$-_] and the hex digits
\* are in the first two, so the last alternative adds no string to (...)+
UrlChar ==
    Cls(FALSE, {<<97, 122>>, <<65, 90>>, <<48, 57>>, <<36, 95>>, <<64, 64>>, <<46, 46>>,
                <<38, 38>>, <<43, 43>>, <<33, 33>>, <<42, 42>>, <<92, 92>>, <<40, 40>>,
                <<41, 41>>, <<44, 44>>}, {})

CrawlRules ==
    <<
    \* 245: r'[가-힣]*\s*기자.*?@.*?\.[a-z]{2,}' -> ''
    <<<<Rep(Hangul, 0, FALSE), Rep(Space, 0, FALSE), Lit(<<44592, 51088>>), Rep(Dot, 0, TRUE), Lit(<<64>>), Rep(Dot, 0, TRUE), Lit(<<46>>), Rep(Cls(FALSE, {<<97, 122>>}, {}), 2, FALSE)>>, <<>>>>,
    \* 246: r'저작권.*?금지' -> ''
    <<<<Lit(<<51200, 51089, 44428>>), Rep(Dot, 0, TRUE), Lit(<<44552, 51648>>)>>, <<>>>>,
    \* 247: r'무단.*?금지' -> ''
    <<<<Lit(<<47924, 45800>>), Rep(Dot, 0, TRUE), Lit(<<44552, 51648>>)>>, <<>>>>,
    \* 248: r'\[.*?앵커.*?\]' -> ''
    <<<<Lit(<<91>>), Rep(Dot, 0, TRUE), Lit(<<50549, 52964>>), Rep(Dot, 0, TRUE), Lit(<<93>>)>>, <<>>>>,
    \* 249: r'\[.*?리포트.*?\]' -> ''
    <<<<Lit(<<91>>), Rep(Dot, 0, TRUE), Lit(<<47532, 54252, 53944>>), Rep(Dot, 0, TRUE), Lit(<<93>>)>>, <<>>>>,
    \* 252: r'jebo23.*?친구\s*추가.*?@.*?\..*?[가-힣]*' -> ''
    <<<<Lit(<<106, 101, 98, 111, 50, 51>>), Rep(Dot, 0, TRUE), Lit(<<52828, 44396>>), Rep(Space, 0, FALSE), Lit(<<52628, 44032>>), Rep(Dot, 0, TRUE), Lit(<<64>>), Rep(Dot, 0, TRUE), Lit(<<46>>), Rep(Dot, 0, TRUE), Rep(Hangul, 0, FALSE)>>, <<>>>>,
    \* 253: r'라인\s*앱에서.*?친구\s*추가' -> ''
    <<<<Lit(<<46972, 51064>>), Rep(Space, 0, FALSE), Lit(<<50545, 50640, 49436>>), Rep(Dot, 0, TRUE), Lit(<<52828, 44396>>), Rep(Space, 0, FALSE), Lit(<<52628, 44032>>)>>, <<>>>>,
    \* 254: r'좋아요\d+응원해요\d+후속\s*원해요\d+' -> ''
    <<<<Lit(<<51339, 50500, 50836>>), Rep(Digit, 1, FALSE), Lit(<<51025, 50896, 54644, 50836>>), Rep(Digit, 1, FALSE), Lit(<<54980, 49549>>), Rep(Space, 0, FALSE), Lit(<<50896, 54644, 50836>>), Rep(Digit, 1, FALSE)>>, <<>>>>,
    \* 255: r'ADVERTISEMENT' -> ''
    <<<<Lit(<<65, 68, 86, 69, 82, 84, 73, 83, 69, 77, 69, 78, 84>>)>>, <<>>>>,
    \* 256: r'광고' -> ''
    <<<<Lit(<<44305, 44256>>)>>, <<>>>>,
    \* 259: r'사진\s*=\s*[^\n]*' -> ''
    <<<<Lit(<<49324, 51652>>), Rep(Space, 0, FALSE), Lit(<<61>>), Rep(Space, 0, FALSE), Rep(Cls(TRUE, {<<10, 10>>}, {}), 0, FALSE)>>, <<>>>>,
    \* 260: r'출처\s*:\s*[^\n]*' -> ''
    <<<<Lit(<<52636, 52376>>), Rep(Space, 0, FALSE), Lit(<<58>>), Rep(Space, 0, FALSE), Rep(Cls(TRUE, {<<10, 10>>}, {}), 0, FALSE)>>, <<>>>>,
    \* 261: r'제공\s*=\s*[^\n]*' -> ''
    <<<<Lit(<<51228, 44277>>), Rep(Space, 0, FALSE), Lit(<<61>>), Rep(Space, 0, FALSE), Rep(Cls(TRUE, {<<10, 10>>}, {}), 0, FALSE)>>, <<>>>>,
    \* 262: r'이미지\s*=\s*[^\n]*' -> ''
    <<<<Lit(<<51060, 48120, 51648>>), Rep(Space, 0, FALSE), Lit(<<61>>), Rep(Space, 0, FALSE), Rep(Cls(TRUE, {<<10, 10>>}, {}), 0, FALSE)>>, <<>>>>,
    \* 263: r'사진제공\s*[^\n]*' -> ''
    <<<<Lit(<<49324, 51652, 51228, 44277>>), Rep(Space, 0, FALSE), Rep(Cls(TRUE, {<<10, 10>>}, {}), 0, FALSE)>>, <<>>>>,
    \* 264: r'자료사진\s*[^\n]*' -> ''
    <<<<Lit(<<51088, 47308, 49324, 51652>>), Rep(Space, 0, FALSE), Rep(Cls(TRUE, {<<10, 10>>}, {}), 0, FALSE)>>, <<>>>>,
    \* 265: r'연합뉴스\s*자료사진' -> ''
    <<<<Lit(<<50672, 54633, 45684, 49828>>), Rep(Space, 0, FALSE), Lit(<<51088, 47308, 49324, 51652>>)>>, <<>>>>,
    \* 266: r'뉴시스\s*자료사진' -> ''
    <<<<Lit(<<45684, 49884, 49828>>), Rep(Space, 0, FALSE), Lit(<<51088, 47308, 49324, 51652>>)>>, <<>>>>,
    \* 267: r'게티이미지\s*뱅크' -> ''
    <<<<Lit(<<44172, 54000, 51060, 48120, 51648>>), Rep(Space, 0, FALSE), Lit(<<48197, 53356>>)>>, <<>>>>,
    \* 268: r'AFP\s*연합뉴스' -> ''
    <<<<Lit(<<65, 70, 80>>), Rep(Space, 0, FALSE), Lit(<<50672, 54633, 45684, 49828>>)>>, <<>>>>,
    \* 269: r'로이터\s*연합뉴스' -> ''
    <<<<Lit(<<47196, 51060, 53552>>), Rep(Space, 0, FALSE), Lit(<<50672, 54633, 45684, 49828>>)>>, <<>>>>,
    \* 272: r'페이스북.*?공유' -> ''
    <<<<Lit(<<54168, 51060, 49828, 48513>>), Rep(Dot, 0, TRUE), Lit(<<44277, 50976>>)>>, <<>>>>,
    \* 273: r'트위터.*?공유' -> ''
    <<<<Lit(<<53944, 50948, 53552>>), Rep(Dot, 0, TRUE), Lit(<<44277, 50976>>)>>, <<>>>>,
    \* 274: r'카카오톡.*?공유' -> ''
    <<<<Lit(<<52852, 52852, 50724, 53665>>), Rep(Dot, 0, TRUE), Lit(<<44277, 50976>>)>>, <<>>>>,
    \* 275: r'네이버.*?공유' -> ''
    <<<<Lit(<<45348, 51060, 48260>>), Rep(Dot, 0, TRUE), Lit(<<44277, 50976>>)>>, <<>>>>,
    \* 278: r'구독.*?알림' -> ''
    <<<<Lit(<<44396, 46021>>), Rep(Dot, 0, TRUE), Lit(<<50508, 47548>>)>>, <<>>>>,
    \* 279: r'팔로우.*?하기' -> ''
    <<<<Lit(<<54036, 47196, 50864>>), Rep(Dot, 0, TRUE), Lit(<<54616, 44592>>)>>, <<>>>>,
    \* 280: r'더\s*많은.*?뉴스' -> ''
    <<<<Lit(<<45908>>), Rep(Space, 0, FALSE), Lit(<<47566, 51008>>), Rep(Dot, 0, TRUE), Lit(<<45684, 49828>>)>>, <<>>>>,
    \* 283: r'닫기' -> ''
    <<<<Lit(<<45803, 44592>>)>>, <<>>>>,
    \* 284: r'제보는.*?카카오톡' -> ''
    <<<<Lit(<<51228, 48372, 45716>>), Rep(Dot, 0, TRUE), Lit(<<52852, 52852, 50724, 53665>>)>>, <<>>>>,
    \* 285: r'제보.*?접수' -> ''
    <<<<Lit(<<51228, 48372>>), Rep(Dot, 0, TRUE), Lit(<<51217, 49688>>)>>, <<>>>>,
    \* 286: r'뉴스\s*제보' -> ''
    <<<<Lit(<<45684, 49828>>), Rep(Space, 0, FALSE), Lit(<<51228, 48372>>)>>, <<>>>>,
    \* 287: r'독자\s*제보' -> ''
    <<<<Lit(<<46021, 51088>>), Rep(Space, 0, FALSE), Lit(<<51228, 48372>>)>>, <<>>>>,
    \* 288: r'시청자\s*제보' -> ''
    <<<<Lit(<<49884, 52397, 51088>>), Rep(Space, 0, FALSE), Lit(<<51228, 48372>>)>>, <<>>>>,
    \* 289: r'취재\s*요청' -> ''
    <<<<Lit(<<52712, 51116>>), Rep(Space, 0, FALSE), Lit(<<50836, 52397>>)>>, <<>>>>,
    \* 290: r'문의.*?연락처' -> ''
    <<<<Lit(<<47928, 51032>>), Rep(Dot, 0, TRUE), Lit(<<50672, 46973, 52376>>)>>, <<>>>>,
    \* 291: r'홈페이지.*?바로가기' -> ''
    <<<<Lit(<<54856, 54168, 51060, 51648>>), Rep(Dot, 0, TRUE), Lit(<<48148, 47196, 44032, 44592>>)>>, <<>>>>,
    \* 292: r'모바일.*?버전' -> ''
    <<<<Lit(<<47784, 48148, 51068>>), Rep(Dot, 0, TRUE), Lit(<<48260, 51204>>)>>, <<>>>>,
    \* 293: r'PC.*?버전' -> ''
    <<<<Lit(<<80, 67>>), Rep(Dot, 0, TRUE), Lit(<<48260, 51204>>)>>, <<>>>>,
    \* 294: r'전체.*?메뉴' -> ''
    <<<<Lit(<<51204, 52404>>), Rep(Dot, 0, TRUE), Lit(<<47700, 45684>>)>>, <<>>>>,
    \* 295: r'메뉴.*?닫기' -> ''
    <<<<Lit(<<47700, 45684>>), Rep(Dot, 0, TRUE), Lit(<<45803, 44592>>)>>, <<>>>>,
    \* 296: r'로그인.*?회원가입' -> ''
    <<<<Lit(<<47196, 44536, 51064>>), Rep(Dot, 0, TRUE), Lit(<<54924, 50896, 44032, 51077>>)>>, <<>>>>,
    \* 297: r'회원.*?서비스' -> ''
    <<<<Lit(<<54924, 50896>>), Rep(Dot, 0, TRUE), Lit(<<49436, 48708, 49828>>)>>, <<>>>>,
    \* 300: r'\s+' -> ' '
    <<<<Rep(Space, 1, FALSE)>>, <<32>>>>
    >>

SummarizeRules ==
    <<
    \* 502: r'[a-zA-Z0-9._%+-]+@[a-zA-Z0-9.-]+\.[a-zA-Z]{2,}' -> ''
    <<<<Rep(Cls(FALSE, {<<97, 122>>, <<65, 90>>, <<48, 57>>, <<46, 46>>, <<95, 95>>, <<37, 37>>, <<43, 43>>, <<45, 45>>}, {}), 1, FALSE), Lit(<<64>>), Rep(Cls(FALSE, {<<97, 122>>, <<65, 90>>, <<48, 57>>, <<46, 46>>, <<45, 45>>}, {}), 1, FALSE), Lit(<<46>>), Rep(Latin, 2, FALSE)>>, <<>>>>,
    \* 503: r'http[s]?://(?:[a-zA-Z]|[0-9]|[$-_@.&+]|[!*\\(\\),]|(?:%[0-9a-fA-F][0-9a-fA-F]))+' -> ''
    <<<<Lit(<<104, 116, 116, 112>>), RepN(Cls(FALSE, {<<115, 115>>}, {}), 0, 1), Lit(<<58, 47, 47>>), Rep(UrlChar, 1, FALSE)>>, <<>>>>,
    \* 504: r'[가-힣]+\s*기자' -> ''
    <<<<Rep(Hangul, 1, FALSE), Rep(Space, 0, FALSE), Lit(<<44592, 51088>>)>>, <<>>>>,
    \* 505: r'【.*?】' -> ''
    <<<<Lit(<<12304>>), Rep(Dot, 0, TRUE), Lit(<<12305>>)>>, <<>>>>,
    \* 506: r'\[.*?\]' -> ''
    <<<<Lit(<<91>>), Rep(Dot, 0, TRUE), Lit(<<93>>)>>, <<>>>>,
    \* 509: r'jebo23.*?친구\s*추가.*?@.*?\..*?[가-힣]*' -> ''
    <<<<Lit(<<106, 101, 98, 111, 50, 51>>), Rep(Dot, 0, TRUE), Lit(<<52828, 44396>>), Rep(Space, 0, FALSE), Lit(<<52628, 44032>>), Rep(Dot, 0, TRUE), Lit(<<64>>), Rep(Dot, 0, TRUE), Lit(<<46>>), Rep(Dot, 0, TRUE), Rep(Hangul, 0, FALSE)>>, <<>>>>,
    \* 510: r'라인\s*앱에서.*?친구\s*추가' -> ''
    <<<<Lit(<<46972, 51064>>), Rep(Space, 0, FALSE), Lit(<<50545, 50640, 49436>>), Rep(Dot, 0, TRUE), Lit(<<52828, 44396>>), Rep(Space, 0, FALSE), Lit(<<52628, 44032>>)>>, <<>>>>,
    \* 511: r'좋아요\d+응원해요\d+후속\s*원해요\d+' -> ''
    <<<<Lit(<<51339, 50500, 50836>>), Rep(Digit, 1, FALSE), Lit(<<51025, 50896, 54644, 50836>>), Rep(Digit, 1, FALSE), Lit(<<54980, 49549>>), Rep(Space, 0, FALSE), Lit(<<50896, 54644, 50836>>), Rep(Digit, 1, FALSE)>>, <<>>>>,
    \* 512: r'ADVERTISEMENT' -> ''
    <<<<Lit(<<65, 68, 86, 69, 82, 84, 73, 83, 69, 77, 69, 78, 84>>)>>, <<>>>>,
    \* 513: r'광고' -> ''
    <<<<Lit(<<44305, 44256>>)>>, <<>>>>,
    \* 514: r'AD' -> ''
    <<<<Lit(<<65, 68>>)>>, <<>>>>,
    \* 517: r'페이스북.*?공유' -> ''
    <<<<Lit(<<54168, 51060, 49828, 48513>>), Rep(Dot, 0, TRUE), Lit(<<44277, 50976>>)>>, <<>>>>,
    \* 518: r'트위터.*?공유' -> ''
    <<<<Lit(<<53944, 50948, 53552>>), Rep(Dot, 0, TRUE), Lit(<<44277, 50976>>)>>, <<>>>>,
    \* 519: r'카카오톡.*?공유' -> ''
    <<<<Lit(<<52852, 52852, 50724, 53665>>), Rep(Dot, 0, TRUE), Lit(<<44277, 50976>>)>>, <<>>>>,
    \* 520: r'네이버.*?공유' -> ''
    <<<<Lit(<<45348, 51060, 48260>>), Rep(Dot, 0, TRUE), Lit(<<44277, 50976>>)>>, <<>>>>,
    \* 521: r'공유하기' -> ''
    <<<<Lit(<<44277, 50976, 54616, 44592>>)>>, <<>>>>,
    \* 524: r'구독.*?알림' -> ''
    <<<<Lit(<<44396, 46021>>), Rep(Dot, 0, TRUE), Lit(<<50508, 47548>>)>>, <<>>>>,
    \* 525: r'팔로우.*?하기' -> ''
    <<<<Lit(<<54036, 47196, 50864>>), Rep(Dot, 0, TRUE), Lit(<<54616, 44592>>)>>, <<>>>>,
    \* 526: r'더\s*많은.*?뉴스' -> ''
    <<<<Lit(<<45908>>), Rep(Space, 0, FALSE), Lit(<<47566, 51008>>), Rep(Dot, 0, TRUE), Lit(<<45684, 49828>>)>>, <<>>>>,
    \* 527: r'뉴스\s*더보기' -> ''
    <<<<Lit(<<45684, 49828>>), Rep(Space, 0, FALSE), Lit(<<45908, 48372, 44592>>)>>, <<>>>>,
    \* 530: r'앱\s*다운로드' -> ''
    <<<<Lit(<<50545>>), Rep(Space, 0, FALSE), Lit(<<45796, 50868, 47196, 46300>>)>>, <<>>>>,
    \* 531: r'모바일.*?앱' -> ''
    <<<<Lit(<<47784, 48148, 51068>>), Rep(Dot, 0, TRUE), Lit(<<50545>>)>>, <<>>>>,
    \* 534: r'사진\s*=\s*[^\n.]*' -> ''
    <<<<Lit(<<49324, 51652>>), Rep(Space, 0, FALSE), Lit(<<61>>), Rep(Space, 0, FALSE), Rep(Cls(TRUE, {<<10, 10>>, <<46, 46>>}, {}), 0, FALSE)>>, <<>>>>,
    \* 535: r'출처\s*:\s*[^\n.]*' -> ''
    <<<<Lit(<<52636, 52376>>), Rep(Space, 0, FALSE), Lit(<<58>>), Rep(Space, 0, FALSE), Rep(Cls(TRUE, {<<10, 10>>, <<46, 46>>}, {}), 0, FALSE)>>, <<>>>>,
    \* 536: r'제공\s*=\s*[^\n.]*' -> ''
    <<<<Lit(<<51228, 44277>>), Rep(Space, 0, FALSE), Lit(<<61>>), Rep(Space, 0, FALSE), Rep(Cls(TRUE, {<<10, 10>>, <<46, 46>>}, {}), 0, FALSE)>>, <<>>>>,
    \* 537: r'이미지\s*=\s*[^\n.]*' -> ''
    <<<<Lit(<<51060, 48120, 51648>>), Rep(Space, 0, FALSE), Lit(<<61>>), Rep(Space, 0, FALSE), Rep(Cls(TRUE, {<<10, 10>>, <<46, 46>>}, {}), 0, FALSE)>>, <<>>>>,
    \* 538: r'사진제공\s*[^\n.]*' -> ''
    <<<<Lit(<<49324, 51652, 51228, 44277>>), Rep(Space, 0, FALSE), Rep(Cls(TRUE, {<<10, 10>>, <<46, 46>>}, {}), 0, FALSE)>>, <<>>>>,
    \* 539: r'자료사진\s*[^\n.]*' -> ''
    <<<<Lit(<<51088, 47308, 49324, 51652>>), Rep(Space, 0, FALSE), Rep(Cls(TRUE, {<<10, 10>>, <<46, 46>>}, {}), 0, FALSE)>>, <<>>>>,
    \* 540: r'연합뉴스\s*자료사진' -> ''
    <<<<Lit(<<50672, 54633, 45684, 49828>>), Rep(Space, 0, FALSE), Lit(<<51088, 47308, 49324, 51652>>)>>, <<>>>>,
    \* 541: r'뉴시스\s*자료사진' -> ''
    <<<<Lit(<<45684, 49884, 49828>>), Rep(Space, 0, FALSE), Lit(<<51088, 47308, 49324, 51652>>)>>, <<>>>>,
    \* 542: r'게티이미지\s*뱅크' -> ''
    <<<<Lit(<<44172, 54000, 51060, 48120, 51648>>), Rep(Space, 0, FALSE), Lit(<<48197, 53356>>)>>, <<>>>>,
    \* 543: r'AFP\s*연합뉴스' -> ''
    <<<<Lit(<<65, 70, 80>>), Rep(Space, 0, FALSE), Lit(<<50672, 54633, 45684, 49828>>)>>, <<>>>>,
    \* 544: r'로이터\s*연합뉴스' -> ''
    <<<<Lit(<<47196, 51060, 53552>>), Rep(Space, 0, FALSE), Lit(<<50672, 54633, 45684, 49828>>)>>, <<>>>>,
    \* 545: r'EPA\s*연합뉴스' -> ''
    <<<<Lit(<<69, 80, 65>>), Rep(Space, 0, FALSE), Lit(<<50672, 54633, 45684, 49828>>)>>, <<>>>>,
    \* 546: r'AP\s*연합뉴스' -> ''
    <<<<Lit(<<65, 80>>), Rep(Space, 0, FALSE), Lit(<<50672, 54633, 45684, 49828>>)>>, <<>>>>,
    \* 547: r'사진\s*출처' -> ''
    <<<<Lit(<<49324, 51652>>), Rep(Space, 0, FALSE), Lit(<<52636, 52376>>)>>, <<>>>>,
    \* 548: r'이미지\s*출처' -> ''
    <<<<Lit(<<51060, 48120, 51648>>), Rep(Space, 0, FALSE), Lit(<<52636, 52376>>)>>, <<>>>>,
    \* 551: r'닫기' -> ''
    <<<<Lit(<<45803, 44592>>)>>, <<>>>>,
    \* 552: r'제보는.*?카카오톡' -> ''
    <<<<Lit(<<51228, 48372, 45716>>), Rep(Dot, 0, TRUE), Lit(<<52852, 52852, 50724, 53665>>)>>, <<>>>>,
    \* 553: r'제보.*?접수' -> ''
    <<<<Lit(<<51228, 48372>>), Rep(Dot, 0, TRUE), Lit(<<51217, 49688>>)>>, <<>>>>,
    \* 554: r'뉴스\s*제보' -> ''
    <<<<Lit(<<45684, 49828>>), Rep(Space, 0, FALSE), Lit(<<51228, 48372>>)>>, <<>>>>,
    \* 555: r'독자\s*제보' -> ''
    <<<<Lit(<<46021, 51088>>), Rep(Space, 0, FALSE), Lit(<<51228, 48372>>)>>, <<>>>>,
    \* 556: r'시청자\s*제보' -> ''
    <<<<Lit(<<49884, 52397, 51088>>), Rep(Space, 0, FALSE), Lit(<<51228, 48372>>)>>, <<>>>>,
    \* 557: r'취재\s*요청' -> ''
    <<<<Lit(<<52712, 51116>>), Rep(Space, 0, FALSE), Lit(<<50836, 52397>>)>>, <<>>>>,
    \* 558: r'문의.*?연락처' -> ''
    <<<<Lit(<<47928, 51032>>), Rep(Dot, 0, TRUE), Lit(<<50672, 46973, 52376>>)>>, <<>>>>,
    \* 559: r'홈페이지.*?바로가기' -> ''
    <<<<Lit(<<54856, 54168, 51060, 51648>>), Rep(Dot, 0, TRUE), Lit(<<48148, 47196, 44032, 44592>>)>>, <<>>>>,
    \* 560: r'모바일.*?버전' -> ''
    <<<<Lit(<<47784, 48148, 51068>>), Rep(Dot, 0, TRUE), Lit(<<48260, 51204>>)>>, <<>>>>,
    \* 561: r'PC.*?버전' -> ''
    <<<<Lit(<<80, 67>>), Rep(Dot, 0, TRUE), Lit(<<48260, 51204>>)>>, <<>>>>,
    \* 562: r'전체.*?메뉴' -> ''
    <<<<Lit(<<51204, 52404>>), Rep(Dot, 0, TRUE), Lit(<<47700, 45684>>)>>, <<>>>>,
    \* 563: r'메뉴.*?닫기' -> ''
    <<<<Lit(<<47700, 45684>>), Rep(Dot, 0, TRUE), Lit(<<45803, 44592>>)>>, <<>>>>,
    \* 564: r'로그인.*?회원가입' -> ''
    <<<<Lit(<<47196, 44536, 51064>>), Rep(Dot, 0, TRUE), Lit(<<54924, 50896, 44032, 51077>>)>>, <<>>>>,
    \* 565: r'회원.*?서비스' -> ''
    <<<<Lit(<<54924, 50896>>), Rep(Dot, 0, TRUE), Lit(<<49436, 48708, 49828>>)>>, <<>>>>,
    \* 566: r'이용약관.*?개인정보' -> ''
    <<<<Lit(<<51060, 50857, 50557, 44288>>), Rep(Dot, 0, TRUE), Lit(<<44060, 51064, 51221, 48372>>)>>, <<>>>>,
    \* 567: r'개인정보.*?처리방침' -> ''
    <<<<Lit(<<44060, 51064, 51221, 48372>>), Rep(Dot, 0, TRUE), Lit(<<52376, 47532, 48169, 52840>>)>>, <<>>>>,
    \* 568: r'저작권.*?정책' -> ''
    <<<<Lit(<<51200, 51089, 44428>>), Rep(Dot, 0, TRUE), Lit(<<51221, 52293>>)>>, <<>>>>,
    \* 569: r'청소년.*?보호정책' -> ''
    <<<<Lit(<<52397, 49548, 45380>>), Rep(Dot, 0, TRUE), Lit(<<48372, 54840, 51221, 52293>>)>>, <<>>>>,
    \* 572: r'\.kr\b' -> ''
    <<<<Lit(<<46, 107, 114>>), WB>>, <<>>>>,
    \* 573: r'\.co\.kr\b' -> ''
    <<<<Lit(<<46, 99, 111, 46, 107, 114>>), WB>>, <<>>>>,
    \* 574: r'\.com\b' -> ''
    <<<<Lit(<<46, 99, 111, 109>>), WB>>, <<>>>>,
    \* 575: r'www\.' -> ''
    <<<<Lit(<<119, 119, 119, 46>>)>>, <<>>>>,
    \* 576: r'http[s]?://' -> ''
    <<<<Lit(<<104, 116, 116, 112>>), RepN(Cls(FALSE, {<<115, 115>>}, {}), 0, 1), Lit(<<58, 47, 47>>)>>, <<>>>>,
    \* 579: r'\s+' -> ' '
    <<<<Rep(Space, 1, FALSE)>>, <<32>>>>,
    \* 580: r'[^\w\s가-힣.,!?]' -> ' '
    <<<<RepN(Cls(TRUE, {<<44032, 55203>>, <<46, 46>>, <<44, 44>>, <<33, 33>>, <<63, 63>>}, {"w", "s"}), 1, 1)>>, <<32>>>>
    >>

\* rules[lo..hi] applied in sequence, each to the result of the one before
\* (no rule matches in the empty string; the range is halved so that the depth
\* of the evaluation stays logarithmic in the number of rules)
RECURSIVE ApplyRange(_, _, _, _)
ApplyRange(rules, lo, hi, s) ==
    IF s = <<>> THEN s
    ELSE IF lo = hi THEN ReSub(rules[lo][1], rules[lo][2], s)
    ELSE ApplyRange(rules, ((lo + hi) \div 2) + 1, hi,
                    ApplyRange(rules, lo, (lo + hi) \div 2, s))

ApplyRules(rules, s) == ApplyRange(rules, 1, Len(rules), s)

\* crawl_article_content, from the extracted text on: the clean-up of a
\* non-empty content, the cut to 2500 characters, the placeholder
CrawlMaxLen == 2500
\* "본문을 가져올 수 없습니다."
NoContent == <<48376, 47928, 51012, 32, 44032, 51256, 50732, 32, 49688, 32, 50630, 49845, 45768, 45796, 46>>
CleanContent(content) ==
    IF content = <<>> THEN <<>> ELSE Strip(ApplyRules(CrawlRules, content))
\* line 303: content[:2500] if content else the placeholder
Returned(content) ==
    IF content # <<>>
    THEN SubSeq(content, 1, IF Len(content) < CrawlMaxLen THEN Len(content) ELSE CrawlMaxLen)
    ELSE NoContent
crawl_article_content(content) == Returned(CleanContent(content))

\* summarize_text, lines 498-581: the text handed to the summarizer
Preprocess(str) ==
    Strip(ApplyRules(SummarizeRules, Strip(ReSub(<<Rep(Space, 1, FALSE)>>, <<32>>, str))))

(***************************************************************************)
(* TextProcessor.simple_summarize                                          *)
(***************************************************************************)
\* None, as a value that no str equals
None == <<-1>>

\* Python's "not text" for a str or None
Falsy(str) == str = None \/ str = <<>>

MinTextLen == 50
MinSentenceLen == 15
BylineWindow == 10

\* "요약할 내용이 부족합니다."
InsufficientInput == <<50836, 50557, 54624, 32, 45236, 50857, 51060, 32, 48512, 51313, 54633, 45768, 45796, 46>>
\* "문장을 분리할 수 없습니다."
SegmentationExhausted == <<47928, 51109, 51012, 32, 48516, 47532, 54624, 32, 49688, 32, 50630, 49845, 45768, 45796, 46>>
\* "점수를 계산할 수 없습니다."
NoScores == <<51216, 49688, 47484, 32, 44228, 49328, 54624, 32, 49688, 32, 50630, 49845, 45768, 45796, 46>>
\* "요약을 생성할 수 없습니다."
NoSummary == <<50836, 50557, 51012, 32, 49373, 49457, 54624, 32, 49688, 32, 50630, 49845, 45768, 45796, 46>>

\* r'[.!?]|다\s|었다\s|였다\s|습니다\s|ㅂ니다\s'
SentenceEndings ==
    << <<RepN(Cls(FALSE, {<<46, 46>>, <<33, 33>>, <<63, 63>>}, {}), 1, 1)>>,
       <<Lit(<<45796>>), RepN(Space, 1, 1)>>,
       <<Lit(<<50632, 45796>>), RepN(Space, 1, 1)>>,
       <<Lit(<<50688, 45796>>), RepN(Space, 1, 1)>>,
       <<Lit(<<49845, 45768, 45796>>), RepN(Space, 1, 1)>>,
       <<Lit(<<12610, 45768, 45796>>), RepN(Space, 1, 1)>> >>

\* '기자'
BylineMarker == <<44592, 51088>>

\* the substrings that exclude a sentence (lines 381-401)
FilterMarkers ==
    { <<49324, 51652, 61>>,      \* '사진='
      <<52636, 52376, 58>>,      \* '출처:'
      <<51228, 44277, 61>>,      \* '제공='
      <<51060, 48120, 51648, 61>>,    \* '이미지='
      <<51088, 47308, 49324, 51652>>,   \* '자료사진'
      <<44172, 54000, 51060, 48120, 51648>>, \* '게티이미지'
      <<65, 70, 80>>,        \* 'AFP'
      <<47196, 51060, 53552>>,     \* '로이터'
      <<45803, 44592>>,       \* '닫기'
      <<51228, 48372, 45716>>,     \* '제보는'
      <<52852, 52852, 50724, 53665>>,   \* '카카오톡'
      <<45684, 49828, 51228, 48372>>,   \* '뉴스제보'
      <<46021, 51088, 51228, 48372>>,   \* '독자제보'
      <<49884, 52397, 51088, 51228, 48372>>, \* '시청자제보'
      <<52712, 51116, 50836, 52397>>,   \* '취재요청'
      <<54856, 54168, 51060, 51648>>,   \* '홈페이지'
      <<48148, 47196, 44032, 44592>>,   \* '바로가기'
      <<47196, 44536, 51064>>,     \* '로그인'
      <<54924, 50896, 44032, 51077>>,   \* '회원가입'
      <<46, 107, 114>>,        \* '.kr'
      <<46, 99, 111, 109>> }      \* '.com'

\* the condition of lines 379-401 on a stripped fragment
KeepSentence(x) ==
    /\ Len(x) > MinSentenceLen
    /\ ~Contains(SubSeq(x, 1, IF Len(x) < BylineWindow THEN Len(x) ELSE BylineWindow),
                 BylineMarker)
    /\ \A m \in FilterMarkers : ~Contains(x, m)

\* each of the parts, stripped
StripAll(parts) == [k \in 1..Len(parts) |-> Strip(parts[k])]

\* lines 372-402: the filtered split
FilteredSplit(str) == SelectSeq(StripAll(ReSplit(SentenceEndings, str)), KeepSentence)

\* line 406: [s.strip() for s in text.split('.') if len(s.strip()) > 15]
PeriodSplit(str) ==
    SelectSeq(StripAll(ReSplit(<< <<Lit(<<46>>)>> >>, str)), LAMBDA x : Len(x) > MinSentenceLen)

\* lines 404-406: the sentences, or the fallback when there is none
OrFallback(sents, fallback) == IF Len(sents) = 0 THEN fallback ELSE sents

\* a variant of Segment without the fallback of lines 404-406
SegmentFilteredOnly(str) == FilteredSplit(str)

\* lines 372-406: the sentences, by the fallback chain
Segment(str) == OrFallback(FilteredSplit(str), PeriodSplit(str))

\* lines 416-420 and 445-448: the terms of a text
ExtractTerms(s) ==
    ReFindAll(<<Rep(Hangul, 2, FALSE)>>, s)
      \o ReFindAll(<<Rep(Latin, 3, FALSE)>>, s)
      \o ReFindAll(<<Rep(Digit, 1, FALSE)>>, s)

\* lines 423-435
SummaryStopWords ==
    {
      \* 이것 그것 저것 이런 그런 저런 이렇게 그렇게 저렇게
      <<51060, 44163>>, <<44536, 44163>>, <<51200, 44163>>, <<51060, 47088>>, <<44536, 47088>>,
      <<51200, 47088>>, <<51060, 47111, 44172>>, <<44536, 47111, 44172>>,
      <<51200, 47111, 44172>>,
      \* 때문 경우 때문에 하지만 그러나 그런데 또한 그리고
      <<46412, 47928>>, <<44221, 50864>>, <<46412, 47928, 50640>>, <<54616, 51648, 47564>>,
      <<44536, 47084, 45208>>, <<44536, 47088, 45936>>, <<46608, 54620>>,
      <<44536, 47532, 44256>>,
      \* 이다 있다 없다 한다 된다 이며 이고 에서 에게
      <<51060, 45796>>, <<51080, 45796>>, <<50630, 45796>>, <<54620, 45796>>, <<46108, 45796>>,
      <<51060, 47728>>, <<51060, 44256>>, <<50640, 49436>>, <<50640, 44172>>,
      \* 기자 뉴스 기사 보도 발표 관련 대해 한국 우리나라
      <<44592, 51088>>, <<45684, 49828>>, <<44592, 49324>>, <<48372, 46020>>, <<48156, 54364>>,
      <<44288, 47144>>, <<45824, 54644>>, <<54620, 44397>>, <<50864, 47532, 45208, 46972>>,
      \* 오늘 어제 내일 올해 지난해 올해 내년 지난 다음
      <<50724, 45720>>, <<50612, 51228>>, <<45236, 51068>>, <<50732, 54644>>,
      <<51648, 45212, 54644>>, <<50732, 54644>>, <<45236, 45380>>, <<51648, 45212>>,
      <<45796, 51020>>,
      \* 현재 최근 앞으로 향후 이후 이전 당시 지금
      <<54788, 51116>>, <<52572, 44540>>, <<50526, 51004, 47196>>, <<54693, 54980>>,
      <<51060, 54980>>, <<51060, 51204>>, <<45817, 49884>>, <<51648, 44552>>,
      \* jebo23 라인 앱에서 친구 추가 좋아요 응원해요 후속 원해요
      <<106, 101, 98, 111, 50, 51>>, <<46972, 51064>>, <<50545, 50640, 49436>>,
      <<52828, 44396>>, <<52628, 44032>>, <<51339, 50500, 50836>>,
      <<51025, 50896, 54644, 50836>>, <<54980, 49549>>, <<50896, 54644, 50836>>,
      \* ADVERTISEMENT 광고 AD 공유 공유하기 구독 알림 팔로우
      <<65, 68, 86, 69, 82, 84, 73, 83, 69, 77, 69, 78, 84>>, <<44305, 44256>>, <<65, 68>>,
      <<44277, 50976>>, <<44277, 50976, 54616, 44592>>, <<44396, 46021>>, <<50508, 47548>>,
      <<54036, 47196, 50864>>,
      \* 다운로드 모바일 페이스북 트위터 카카오톡 네이버 더보기
      <<45796, 50868, 47196, 46300>>, <<47784, 48148, 51068>>, <<54168, 51060, 49828, 48513>>,
      <<53944, 50948, 53552>>, <<52852, 52852, 50724, 53665>>, <<45348, 51060, 48260>>,
      <<45908, 48372, 44592>>,
      \* yna krc co kr
      <<121, 110, 97>>, <<107, 114, 99>>, <<99, 111>>, <<107, 114>> }

MinWordLen == 2

\* the number of k with ws[k] = w
CountIn(ws, w) == Cardinality({k \in 1..Len(ws) : ws[k] = w})

\* a variant of WordFreq that counts the stop words too
WordFreqWithStopWords(all_words, w) ==
    IF Len(w) >= MinWordLen THEN CountIn(all_words, w) ELSE 0

\* lines 412-439: word_freq.get(w, 0) over the words of the joined sentences
WordFreq(all_words, w) ==
    IF Len(w) >= MinWordLen /\ w \notin SummaryStopWords THEN CountIn(all_words, w) ELSE 0

\* f[lo] + ... + f[hi]
RECURSIVE SumOf(_, _, _)
SumOf(f, lo, hi) ==
    IF lo > hi THEN 0
    ELSE IF lo = hi THEN f[lo]
    ELSE SumOf(f, lo, (lo + hi) \div 2) + SumOf(f, ((lo + hi) \div 2) + 1, hi)

\* sum(word_freq.get(word, 0) for word in ws)
SumFreq(all_words, ws) == SumOf([k \in 1..Len(ws) |-> WordFreq(all_words, ws[k])], 1, Len(ws))

\* line 451: sum(word_freq.get(word, 0) for word in sentence_words)
BaseScore(all_words, sentence) == SumFreq(all_words, ExtractTerms(sentence))

\* sentences.index(sentence), 0-based: the first position of the text
IndexOf(sents, x) == Min({j \in 1..Len(sents) : sents[j] = x}) - 1

\* a variant of PositionWeight whose tail begins at 0.6 * len(sentences)
PositionWeightEarlyTail(index, n) ==
    IF 10 * index < 3 * n THEN 13
    ELSE IF 10 * index > 6 * n THEN 8
    ELSE 10

\* lines 454-459, in tenths: 1.3, 0.8 or 1.0.  The comparisons with
\* len(sentences) * 0.3 and * 0.7 are made in tenths; the float products
\* decide the same way for every len(sentences) below 90.
PositionWeight(index, n) ==
    IF 10 * index < 3 * n THEN 13
    ELSE IF 10 * index > 7 * n THEN 8
    ELSE 10

\* a variant of LengthWeight whose first range ends at 151
LengthWeightWide(len) ==
    IF 30 <= len /\ len <= 151 THEN 12
    ELSE IF len < 20 \/ len > 200 THEN 7
    ELSE 10

\* lines 462-466, in tenths: 1.2, 0.7 or 1.0
LengthWeight(len) ==
    IF 30 <= len /\ len <= 150 THEN 12
    ELSE IF len < 20 \/ len > 200 THEN 7
    ELSE 10

\* the bases up to 100, by <<position weight, length weight>>, whose float product
\* (base * position_weight) * length_weight is the double next above the
\* correctly rounded exact product (IEEE-754 binary64, round to nearest even)
RoundedUp ==
       {<<b, 8, 7>> : b \in {3, 6, 12, 24, 29, 48, 51, 53, 58, 61, 83, 87, 96}}
    \cup {<<b, 8, 10>> : b \in {3, 6, 7, 12, 14, 17, 19, 23, 24, 28, 29, 33, 34, 38, 
            39, 41, 46, 48, 51, 53, 56, 58, 61, 63, 66, 68, 71, 73, 76, 78, 82, 87, 
            92, 96, 97}}
    \cup {<<b, 8, 12>> : b \in {3, 6, 7, 12, 14, 19, 23, 24, 28, 29, 38, 39, 41, 46, 
            48, 56, 58, 63, 76, 78, 82, 87, 92, 96}}
    \cup {<<b, 13, 7>> : b \in {53, 57, 77}}
    \cup {<<b, 13, 10>> : b \in {3, 6, 9, 12, 13, 18, 23, 24, 26, 31, 36, 41, 46, 48, 
            52, 57, 62, 67, 72, 77, 82, 87, 92, 96, 97, 99}}
    \cup {<<b, 13, 12>> : b \in {3, 6, 9, 12, 18, 24, 31, 36, 48, 62, 67, 72, 73, 96, 
            99}}

\* the bases up to 100, by <<position weight, length weight>>, whose float product
\* (base * position_weight) * length_weight is the double next below the
\* correctly rounded exact product (IEEE-754 binary64, round to nearest even)
RoundedDown ==
       {<<b, 8, 7>> : b \in {1, 2, 4, 8, 13, 15, 16, 26, 30, 32, 35, 52, 55, 57, 60, 
            64, 67, 70, 81, 85, 89, 91, 95}}
    \cup {<<b, 8, 12>> : b \in {15, 30, 31, 43, 45, 60, 62, 81, 86, 90}}
    \cup {<<b, 10, 7>> : b \in {3, 6, 7, 11, 12, 14, 17, 19, 22, 23, 24, 28, 29, 33, 
            34, 38, 39, 43, 44, 45, 46, 48, 51, 53, 56, 58, 61, 63, 66, 68, 71, 73, 
            76, 78, 81, 83, 85, 86, 88, 90, 91, 92, 96, 97}}
    \cup {<<b, 10, 12>> : b \in {3, 6, 9, 12, 18, 23, 24, 31, 36, 41, 46, 48, 51, 53, 
            57, 62, 67, 72, 77, 82, 87, 92, 96, 97}}
    \cup {<<b, 13, 7>> : b \in {1, 2, 4, 7, 8, 14, 15, 16, 28, 30, 32, 33, 35, 43, 
            45, 47, 49, 56, 60, 64, 66, 70, 86, 90, 91, 94, 95, 98}}
    \cup {<<b, 13, 12>> : b \in {19, 38, 51, 65, 71, 76, 81, 91}}

\* the rounding of the float product, in units in the last place
FloatSkew(base, pw, lw) ==
    IF <<base, pw, lw>> \in RoundedUp THEN 1
    ELSE IF <<base, pw, lw>> \in RoundedDown THEN 0 - 1
    ELSE 0

\* line 468: score * position_weight * length_weight, as a sort key: three
\* times the exact product in hundredths, plus the rounding of the float product
Product(base, pw, lw) == 3 * (base * pw * lw) + FloatSkew(base, pw, lw)

Score(sents, all_words, x) ==
    Product(BaseScore(all_words, x),
            PositionWeight(IndexOf(sents, x), Len(sents)),
            LengthWeight(Len(x)))

\* the elements of xs at the positions ks
At(xs, ks) == [k \in 1..Len(ks) |-> xs[ks[k]]]

\* the keys of a dict filled from xs in order: the distinct values of xs, each
\* at its first occurrence
DictKeys(xs) ==
    At(xs, SelectSeq([k \in 1..Len(xs) |-> k], LAMBDA k : \A j \in 1..(k - 1) : xs[j] # xs[k]))

\* a sort that is not stable: equal scores in the reverse of the order of keys
SortedTiesReversed(keys, score) ==
    LET rank(k) == Cardinality({j \in 1..Len(keys) :
                        score[j] > score[k] \/ (score[j] = score[k] /\ j > k)}) + 1
    IN  [p \in 1..Len(keys) |-> keys[CHOOSE k \in 1..Len(keys) : rank(k) = p]]

\* sorted(items, key=score, reverse=True) of the items keys with scores
\* score[k]: a stable sort, so equal scores keep the order of keys
SortedByScoreDesc(keys, score) ==
    LET rank(k) == Cardinality({j \in 1..Len(keys) :
                        score[j] > score[k] \/ (score[j] = score[k] /\ j < k)}) + 1
    IN  [p \in 1..Len(keys) |-> keys[CHOOSE k \in 1..Len(keys) : rank(k) = p]]

\* s[:n]
Take(s, n) == SubSeq(s, 1, IF Len(s) < n THEN Len(s) ELSE n)

\* lines 442-475: the max_sentences best-scored keys of sentence_scores
BestScored(sents, all_words, keys, max_sentences) ==
    Take(SortedByScoreDesc(keys, [k \in 1..Len(keys) |->
                                     Score(sents, all_words, keys[k])] \o <<>>),
         max_sentences)

\* lines 412-475: the texts of the max_sentences best-scored entries
SummarySentences(sents, max_sentences) ==
    BestScored(sents, ExtractTerms(Join(<<32>>, sents)), DictKeys(sents),
               max_sentences)

\* a variant of FinalSentences: the selected sentences in the order of their scores
FinalSentencesByScore(sents, summary_sentences, max_sentences) ==
    Take([k \in 1..Len(summary_sentences) |-> IndexOf(sents, summary_sentences[k]) + 1],
         max_sentences)

\* a variant of FinalSentences without the bound len(final_sentences) < max_sentences
FinalSentencesUncapped(sents, summary_sentences, max_sentences) ==
    SelectSeq([k \in 1..Len(sents) |-> k],
              LAMBDA k : \E j \in 1..Len(summary_sentences) :
                             summary_sentences[j] = sents[k])

\* lines 478-483: the positions of the sentences put in the summary
FinalSentences(sents, summary_sentences, max_sentences) ==
    Take(SelectSeq([k \in 1..Len(sents) |-> k],
                   LAMBDA k : \E j \in 1..Len(summary_sentences) :
                                  summary_sentences[j] = sents[k]),
         max_sentences)

\* a variant of WithPeriod that appends nothing
WithoutPeriod(joined) == joined

\* lines 486-487
WithPeriod(joined) == IF EndsWith(joined, <<46>>) THEN joined ELSE joined \o <<46>>

\* line 489
OrNoSummary(summary) == IF summary # <<46>> THEN summary ELSE NoSummary

\* lines 485-489
AssembleSummary(sents, chosen) ==
    OrNoSummary(WithPeriod(Join(<<46, 32>>, At(sents, chosen))))

\* the return value of lines 485-489, with the sentences and the positions of
\* the selected ones
Summary(sents, chosen) ==
    [result |-> AssembleSummary(sents, chosen), sentences |-> sents, final |-> chosen]

\* a variant of SummaryOf without the test of lines 408-409: with no sentence
\* there is no score, and lines 471-472 return
SummaryOfUnguarded(sents, max_sentences) ==
    IF Len(sents) = 0
    THEN [result |-> NoScores, sentences |-> <<>>, final |-> <<>>]
    ELSE Summary(sents,
                 FinalSentences(sents, SummarySentences(sents, max_sentences),
                                max_sentences))

\* lines 408-489, from the segmented sentences on
SummaryOf(sents, max_sentences) ==
    IF Len(sents) = 0
    THEN [result |-> SegmentationExhausted, sentences |-> <<>>, final |-> <<>>]
    ELSE Summary(sents,
                 FinalSentences(sents, SummarySentences(sents, max_sentences),
                                max_sentences))

\* a variant of simple_summarize without the length test of line 368
simple_summarize_unchecked(str, max_sentences) == SummaryOf(Segment(str), max_sentences)

\* simple_summarize(text, max_sentences): the result, with the sentences and
\* the positions of the selected ones
simple_summarize(str, max_sentences) ==
    IF Falsy(str) \/ Len(Strip(str)) < MinTextLen
    THEN [result |-> InsufficientInput, sentences |-> <<>>, final |-> <<>>]
    ELSE SummaryOf(Segment(str), max_sentences)

(***************************************************************************)
(* TextProcessor.summarize_text                                            *)
(***************************************************************************)
\* '요약'
SummaryWord == <<50836, 50557>>
MinSumyLen == 20

\* the units that are not blank, stripped
NonBlank(units) == SelectSeq(StripAll(units), LAMBDA x : x # <<>>)

\* The Sumy summarizer is a library outside the repository: the model takes
\* it to raise, or to return any selection, in order, of at most
\* sentences_count of the sentences of the text (the runs up to a terminator).
SumySentences(str) ==
    NonBlank(ReFindAll(<<Rep(Cls(TRUE, {<<46, 46>>, <<33, 33>>, <<63, 63>>}, {}), 1, FALSE),
                         Rep(Cls(FALSE, {<<46, 46>>, <<33, 33>>, <<63, 63>>}, {}), 0, FALSE)>>,
                       str))

\* line 593: the sentences at the positions P, joined by a space
Selection(units, P) ==
    Join(<<32>>, At(units, SelectSeq([k \in 1..Len(units) |-> k], LAMBDA k : k \in P)))

Selections(units, sentences_count) ==
    {[raised |-> TRUE, summary |-> <<>>]} \cup
    {[raised |-> FALSE, summary |-> Selection(units, P)] :
        P \in {Q \in SUBSET (1..Len(units)) : Cardinality(Q) <= sentences_count}}

SumyOutcomes(str, sentences_count) == Selections(SumySentences(str), sentences_count)

\* line 608: the prefix of the message for an exception, "요약 생성 중 오류 발생: ".
\* No statement of lines 494-605 raises for a str or None outside the try of
\* lines 590-603, whose handler calls simple_summarize, so the handler of
\* lines 607-608 is not entered.
SummaryError == <<50836, 50557, 32, 49373, 49457, 32, 51473, 32, 50724, 47448, 32, 48156, 49373, 58, 32>>

\* a variant of summarize_text without the validation of line 596: the output of
\* Sumy is returned whenever Sumy does not raise
summarize_text_unvalidated(str, cleaned, sentences_count, sumy_available, sumy, simple) ==
    IF Falsy(str) \/ Len(Strip(str)) < MinTextLen
    THEN [result |-> InsufficientInput, sentences |-> <<>>, final |-> <<>>,
          handed |-> <<>>, by_sumy |-> FALSE]
    ELSE IF sumy_available /\ ~sumy.raised
         THEN [result |-> Strip(sumy.summary), sentences |-> <<>>, final |-> <<>>,
               handed |-> cleaned, by_sumy |-> TRUE]
         ELSE [result |-> simple.result, sentences |-> simple.sentences,
               final |-> simple.final, handed |-> cleaned, by_sumy |-> FALSE]

\* summarize_text(text, sentences_count) for a str or None (lines 494-605).
\* str is the argument text and cleaned is Preprocess(str), the text of line 581
\* that is handed to the summarizer; sumy is the outcome of the Sumy call of
\* lines 590-593 and simple the value of simple_summarize(cleaned,
\* sentences_count), which lines 599, 603 and 605 return.
summarize_text(str, cleaned, sentences_count, sumy_available, sumy, simple) ==
    IF Falsy(str) \/ Len(Strip(str)) < MinTextLen
    THEN [result |-> InsufficientInput, sentences |-> <<>>, final |-> <<>>,
          handed |-> <<>>, by_sumy |-> FALSE]
    ELSE IF /\ sumy_available
            /\ ~sumy.raised
            /\ sumy.summary # <<>>
            /\ Len(Strip(sumy.summary)) > MinSumyLen
            /\ ~Contains(sumy.summary, SummaryWord)
         THEN [result |-> Strip(sumy.summary), sentences |-> <<>>, final |-> <<>>,
               handed |-> cleaned, by_sumy |-> TRUE]
         ELSE [result |-> simple.result, sentences |-> simple.sentences,
               final |-> simple.final, handed |-> cleaned, by_sumy |-> FALSE]

(***************************************************************************)
(* TextProcessor.extract_keywords                                          *)
(***************************************************************************)
\* lines 620-640
KeywordStopWords ==
    {
      \* 이 그 저 것 수 등 및 의 를 을 가 이 은 는
      <<51060>>, <<44536>>, <<51200>>, <<44163>>, <<49688>>, <<46321>>, <<48143>>, <<51032>>,
      <<47484>>, <<51012>>, <<44032>>, <<51060>>, <<51008>>, <<45716>>,
      \* 에 에서 으로 로 와 과 하고 그리고 또는 하지만
      <<50640>>, <<50640, 49436>>, <<51004, 47196>>, <<47196>>, <<50752>>, <<44284>>,
      <<54616, 44256>>, <<44536, 47532, 44256>>, <<46608, 45716>>, <<54616, 51648, 47564>>,
      \* 그러나 따라서 위해 통해 대한 위한 있는 없는 있다
      <<44536, 47084, 45208>>, <<46384, 46972, 49436>>, <<50948, 54644>>, <<53685, 54644>>,
      <<45824, 54620>>, <<50948, 54620>>, <<51080, 45716>>, <<50630, 45716>>, <<51080, 45796>>,
      \* 없다 이다 아니다 한다 된다 것이 것은 것을
      <<50630, 45796>>, <<51060, 45796>>, <<50500, 45768, 45796>>, <<54620, 45796>>,
      <<46108, 45796>>, <<44163, 51060>>, <<44163, 51008>>, <<44163, 51012>>,
      \* 기자 뉴스 기사 보도 발표 관련 대해 에서 한국
      <<44592, 51088>>, <<45684, 49828>>, <<44592, 49324>>, <<48372, 46020>>, <<48156, 54364>>,
      <<44288, 47144>>, <<45824, 54644>>, <<50640, 49436>>, <<54620, 44397>>,
      \* 오늘 어제 내일 올해 지난 앞으로
      <<50724, 45720>>, <<50612, 51228>>, <<45236, 51068>>, <<50732, 54644>>, <<51648, 45212>>,
      <<50526, 51004, 47196>>,
      \* jebo23 라인 앱에서 친구 추가 좋아요 응원해요 후속 원해요
      <<106, 101, 98, 111, 50, 51>>, <<46972, 51064>>, <<50545, 50640, 49436>>,
      <<52828, 44396>>, <<52628, 44032>>, <<51339, 50500, 50836>>,
      <<51025, 50896, 54644, 50836>>, <<54980, 49549>>, <<50896, 54644, 50836>>,
      \* ADVERTISEMENT 광고 AD 공유 공유하기 구독 알림 팔로우
      <<65, 68, 86, 69, 82, 84, 73, 83, 69, 77, 69, 78, 84>>, <<44305, 44256>>, <<65, 68>>,
      <<44277, 50976>>, <<44277, 50976, 54616, 44592>>, <<44396, 46021>>, <<50508, 47548>>,
      <<54036, 47196, 50864>>,
      \* 다운로드 모바일 페이스북 트위터 카카오톡 네이버 더보기
      <<45796, 50868, 47196, 46300>>, <<47784, 48148, 51068>>, <<54168, 51060, 49828, 48513>>,
      <<53944, 50948, 53552>>, <<52852, 52852, 50724, 53665>>, <<45348, 51060, 48260>>,
      <<45908, 48372, 44592>>,
      \* yna krc co kr 문화 연예
      <<121, 110, 97>>, <<107, 114, 99>>, <<99, 111>>, <<107, 114>>, <<47928, 54868>>,
      <<50672, 50696>>,
      \* 사진 출처 제공 이미지 자료사진 사진제공 이미지출처 사진출처
      <<49324, 51652>>, <<52636, 52376>>, <<51228, 44277>>, <<51060, 48120, 51648>>,
      <<51088, 47308, 49324, 51652>>, <<49324, 51652, 51228, 44277>>,
      <<51060, 48120, 51648, 52636, 52376>>, <<49324, 51652, 52636, 52376>>,
      \* 게티이미지 뱅크 AFP 로이터 뉴시스 EPA AP
      <<44172, 54000, 51060, 48120, 51648>>, <<48197, 53356>>, <<65, 70, 80>>,
      <<47196, 51060, 53552>>, <<45684, 49884, 49828>>, <<69, 80, 65>>, <<65, 80>>,
      \* 닫기 제보는 제보 뉴스제보 독자제보 시청자제보 취재요청 취재
      <<45803, 44592>>, <<51228, 48372, 45716>>, <<51228, 48372>>,
      <<45684, 49828, 51228, 48372>>, <<46021, 51088, 51228, 48372>>,
      <<49884, 52397, 51088, 51228, 48372>>, <<52712, 51116, 50836, 52397>>, <<52712, 51116>>,
      \* 홈페이지 바로가기 로그인 회원가입 회원 서비스 이용약관
      <<54856, 54168, 51060, 51648>>, <<48148, 47196, 44032, 44592>>, <<47196, 44536, 51064>>,
      <<54924, 50896, 44032, 51077>>, <<54924, 50896>>, <<49436, 48708, 49828>>,
      <<51060, 50857, 50557, 44288>>,
      \* 개인정보 처리방침 저작권 정책 청소년 보호정책 메뉴 전체
      <<44060, 51064, 51221, 48372>>, <<52376, 47532, 48169, 52840>>, <<51200, 51089, 44428>>,
      <<51221, 52293>>, <<52397, 49548, 45380>>, <<48372, 54840, 51221, 52293>>,
      <<47700, 45684>>, <<51204, 52404>>,
      \* www http https com 버전 PC 모바일 문의 연락처 접수
      <<119, 119, 119>>, <<104, 116, 116, 112>>, <<104, 116, 116, 112, 115>>, <<99, 111, 109>>,
      <<48260, 51204>>, <<80, 67>>, <<47784, 48148, 51068>>, <<47928, 51032>>,
      <<50672, 46973, 52376>>, <<51217, 49688>> }

BoostLen == 4
MinFrequency == 2

\* line 617: re.findall(r'[가-힣a-zA-Z0-9]+', text)
KeywordWords(str) ==
    ReFindAll(<<Rep(Cls(FALSE, {<<44032, 55203>>, <<97, 122>>, <<65, 90>>, <<48, 57>>}, {}),
                    1, FALSE)>>, str)

\* a variant of CountedWords that counts the stop words too
CountedWordsWithStopWords(words) ==
    DictKeys(SelectSeq(words, LAMBDA w : Len(w) >= MinWordLen))

\* lines 643-646: the keys of word_freq, in the order of their first count
CountedWords(words) ==
    DictKeys(SelectSeq(words, LAMBDA w : Len(w) >= MinWordLen /\ w \notin KeywordStopWords))

\* variants of WeightedFreq: a boost of 2 instead of 1.5, and no boost
WeightedFreqDoubled(words, w) ==
    IF Len(w) >= BoostLen THEN 4 * CountIn(words, w) ELSE 2 * CountIn(words, w)

WeightedFreqUnboosted(words, w) == 2 * CountIn(words, w)

\* lines 649-651, in halves: the count, times 1.5 for a word of 4 or more characters
WeightedFreq(words, w) ==
    IF Len(w) >= BoostLen THEN 3 * CountIn(words, w) ELSE 2 * CountIn(words, w)

\* a variant of Ranked without the sort: the keys in the order of their first count
RankedUnsorted(words, keys, top_k) == Take(keys, top_k)

\* a variant of Ranked with that sort
RankedTiesReversed(words, keys, top_k) ==
    Take(SortedTiesReversed(keys, [k \in 1..Len(keys) |-> WeightedFreq(words, keys[k])]), top_k)

\* line 654, of the keys of word_freq
Ranked(words, keys, top_k) ==
    Take(SortedByScoreDesc(keys, [k \in 1..Len(keys) |-> WeightedFreq(words, keys[k])]), top_k)

\* line 654: sorted(word_freq.items(), key=freq, reverse=True)[:top_k]
TopKeywords(words, top_k) == Ranked(words, CountedWords(words), top_k)

\* line 655: the keywords of frequency 2 or more
Qualifying(words, keywords) ==
    SelectSeq(keywords, LAMBDA w : WeightedFreq(words, w) >= 2 * MinFrequency)

\* lines 617-655
KeywordsOf(words, top_k) == Qualifying(words, TopKeywords(words, top_k))

\* a variant of extract_keywords without the threshold of line 655
extract_keywords_unfiltered(str, top_k) ==
    IF Falsy(str) THEN <<>> ELSE TopKeywords(KeywordWords(str), top_k)

\* extract_keywords(text, top_k); no statement of lines 613-655 raises for a
\* str or None, so the handler of lines 657-658 is not entered
extract_keywords(str, top_k) ==
    IF Falsy(str) THEN <<>> ELSE KeywordsOf(KeywordWords(str), top_k)
(***************************************************************************)
(* NewsCollector: the RSS feeds                                            *)
(***************************************************************************)
\* the set of the elements of the sequence xs
Range(xs) == {xs[k] : k \in 1..Len(xs)}

\* str.lower() of the Latin letters
Lower(s) == [k \in 1..Len(s) |-> IF s[k] \in 65..90 THEN s[k] + 32 ELSE s[k]]

\* the keys of NewsCollector.rss_feeds, two of those of lines 40-90 in their
\* order: "매경_경제" and "SBS_헤드라인"
MkEconomy == <<47588, 44221, 95, 44221, 51228>>
SbsHeadlines == <<83, 66, 83, 95, 54756, 46300, 46972, 51064>>
Categories == <<MkEconomy, SbsHeadlines>>

\* lines 100-109: the article of an entry of a feed ('published' and 'summary'
\* are copied from the entry as well and are read by no line of the model)
Article(entry, category_name) ==
    [title |-> entry.title, link |-> entry.link, description |-> entry.description,
     category |-> category_name]

\* get_rss_feeds(rss_url, category_name), parsed being what feedparser.parse
\* returns for the URL: with raised, the parse or the read of an entry raises
\* and lines 113-115 return []
get_rss_feeds(parsed, category_name) ==
    IF parsed.raised THEN <<>>
    ELSE [k \in 1..Len(parsed.entries) |-> Article(parsed.entries[k], category_name)]

\* the argument selected_categories: None, or a list
NoSelection == [none |-> TRUE, list |-> <<>>]
Listed(list) == [none |-> FALSE, list |-> list]

\* lines 119-120
SelectedCategories(selected_categories) ==
    IF selected_categories.none THEN Categories ELSE selected_categories.list

\* lines 130-141: all_articles, feeds[c] being what the feed of the category c
\* returns
AllArticles(selected, feeds) ==
    Concat([i \in 1..Len(selected) |->
               IF selected[i] \in Range(Categories)
               THEN get_rss_feeds(feeds[selected[i]], selected[i])
               ELSE <<>>],
           1, Len(selected))

\* a variant of UniqueArticles that keeps the last article of a link
UniqueArticlesLast(all_articles) ==
    SelectSeq(all_articles,
              LAMBDA a : a = all_articles[Max({j \in 1..Len(all_articles) :
                                                   all_articles[j].link = a.link})])

\* lines 148-154: the articles whose link no earlier article has
UniqueArticles(all_articles) ==
    At(all_articles,
       SelectSeq([k \in 1..Len(all_articles) |-> k],
                 LAMBDA k : \A j \in 1..(k - 1) : all_articles[j].link # all_articles[k].link))

\* get_all_rss_feeds(selected_categories)
get_all_rss_feeds(selected_categories, feeds) ==
    UniqueArticles(AllArticles(SelectedCategories(selected_categories), feeds))

\* the record of a call of get_all_rss_feeds, and that of no call
NoCall == [selected_categories |-> NoSelection, all_articles |-> <<>>, unique_articles |-> <<>>]

\* lines 160-169: the articles with a keyword in the title or the description,
\* in lower case
MatchesKeyword(article, keywords) ==
    \E k \in 1..Len(keywords) :
        \/ Contains(Lower(article.title), Lower(keywords[k]))
        \/ Contains(Lower(article.description), Lower(keywords[k]))

filter_by_keywords(articles, keywords) ==
    SelectSeq(articles, LAMBDA a : MatchesKeyword(a, keywords))

(***************************************************************************)
(* NewsCollector.crawl_article_content and collect_news_with_content       *)
(***************************************************************************)
\* "크롤링 오류: "
CrawlErrorPrefix == <<53356, 47204, 47553, 32, 50724, 47448, 58, 32>>

\* crawl_article_content(url), page being what the request of the URL gives:
\* the text extracted from the page (lines 175-241), or an exception of the
\* request or of the parser with its message (lines 305-306)
CrawlPage(page) ==
    IF page.raised THEN CrawlErrorPrefix \o page.message
    ELSE crawl_article_content(page.extracted)

\* lines 335-338: the article with its content
WithContent(article, content) ==
    [title |-> article.title, link |-> article.link, description |-> article.description,
     category |-> article.category, content |-> content]

\* collect_news_with_content(keywords) without the crawl of lines 331-339: the
\* articles of all the feeds that match a keyword (lines 313-325)
Matching(keywords, feeds) ==
    filter_by_keywords(get_all_rss_feeds(Listed(Categories), feeds), keywords)

(***************************************************************************)
(* main: a run of the script (lines 1200-1337)                             *)
(***************************************************************************)
\* st.session_state: keys is the set of the keys it has, and the value of a key
\* it has not is not read
NewSession ==
    [keys |-> {}, articles_data |-> <<>>, processing_complete |-> FALSE,
     search_keywords |-> <<>>]

\* a variant of Initialized that assigns the two keys in every run
Reinitialized(state) ==
    [state EXCEPT !.keys = state.keys \cup {"articles_data", "processing_complete"},
                  !.articles_data = <<>>,
                  !.processing_complete = FALSE]

\* lines 1201-1204
Initialized(state) ==
    [state EXCEPT !.keys = state.keys \cup {"articles_data", "processing_complete"},
                  !.articles_data = IF "articles_data" \in state.keys
                                    THEN state.articles_data ELSE <<>>,
                  !.processing_complete = IF "processing_complete" \in state.keys
                                          THEN state.processing_complete ELSE FALSE]

\* lines 1312-1314
Stored(state, processed_articles, keywords) ==
    [keys |-> state.keys \cup {"articles_data", "processing_complete", "search_keywords"},
     articles_data |-> processed_articles, processing_complete |-> TRUE,
     search_keywords |-> keywords]

\* line 1272: [kw.strip() for kw in keywords_input.split(',') if kw.strip()]
Keywords(keywords_input) ==
    SelectSeq(StripAll(ReSplit(<< <<Lit(<<44>>)>> >>, keywords_input)), LAMBDA kw : kw # <<>>)

\* the values of summary_method (line 1186); "간단 요약" takes the branch of
\* "Sumy 라이브러리" at line 1299
KoreanOptimized == <<54620, 44397, 50612, 32, 52572, 51201, 54868>>
SumyLibrary == <<83, 117, 109, 121, 32, 46972, 51060, 48652, 47084, 47532>>
\* the values of the sliders of lines 1182-1183 that are not moved
summary_sentences == 3
keyword_count == 8

\* lines 1305-1307: the article with its summary and its keywords
Processed(article, summary, extracted_keywords) ==
    [title |-> article.title, link |-> article.link, description |-> article.description,
     category |-> article.category, content |-> article.content,
     summary |-> summary, keywords |-> extracted_keywords]

\* the messages of lines 1324, 1332, 1335 and 1337 (those of lines 1324 and 1335
\* up to their first placeholder)
\* "🎉 수집 완료! "
Success == <<127881, 32, 49688, 51665, 32, 50756, 47308, 33, 32>>
\* "😅 해당 키워드로 검색된 기사가 없습니다."
NoArticles == <<128517, 32, 54644, 45817, 32, 53412, 50892, 46300, 47196, 32, 44160, 49353, 46108, 32, 44592, 49324, 44032, 32, 50630, 49845, 45768, 45796, 46>>
\* "❌ 오류 발생: "
ErrorRaised == <<10060, 32, 50724, 47448, 32, 48156, 49373, 58, 32>>
\* "⚠️ 키워드를 입력해주세요."
NoKeywords == <<9888, 65039, 32, 53412, 50892, 46300, 47484, 32, 51077, 47141, 54644, 51452, 49464, 50836, 46>>


\* the Sumy call of lines 590-593 in a run: Sumy is not imported ("absent"),
\* raises, or returns the leading sentences_count sentences of the text
SumyOf(sumy, cleaned, sentences_count) ==
    IF sumy = "leading"
    THEN [raised |-> FALSE,
          summary |-> Selection(SumySentences(cleaned), 1..sentences_count)]
    ELSE [raised |-> TRUE, summary |-> <<>>]

\* line 1300: summarize_text(article['content'], summary_sentences), cleaned
\* being the text of line 581
SummarizedText(content, cleaned, sumy) ==
    summarize_text(content, cleaned, summary_sentences, sumy # "absent",
                   SumyOf(sumy, cleaned, summary_sentences),
                   simple_summarize(cleaned, summary_sentences)).result

\* lines 1297-1300: the summary by the chosen method
SummaryBy(summary_method, content, sumy) ==
    IF summary_method = KoreanOptimized
    THEN simple_summarize(content, summary_sentences).result
    ELSE SummarizedText(content, Preprocess(content), sumy)
(***************************************************************************)
(* The inputs of the model.                                                *)
(***************************************************************************)
\* the longest text, in fragments
MaxFrags == 2
\* the largest max_sentences / sentences_count
MaxSentences == 3
\* the largest top_k
MaxTopK == 5
\* the longest keyword text, in words
MaxWords == 3
\* the most repetitions of one word in a keyword text
MaxCount == 5

\* "오늘 서울에서 열린 행사는 성공적이었다. "
Opening == <<50724, 45720, 32, 49436, 50872, 50640, 49436, 32, 50676, 47536, 32, 54665, 49324, 45716, 32, 49457, 44277, 51201, 51060, 50632, 45796, 46, 32>>
\* "참가자들은 매우 만족했다고 밝혔다. "
Closing == <<52280, 44032, 51088, 46308, 51008, 32, 47588, 50864, 32, 47564, 51313, 54664, 45796, 44256, 32, 48157, 54804, 45796, 46, 32>>

\* pieces of article text: two plain sentences, a sentence with special
\* characters and a double space, and a question
Fragments ==
    << Opening \o Closing,
       <<49436, 50872, 49884, 45716, 32, 45236, 45380, 32, 50696, 49328, 51012, 32, 49, 48, 37, 32, 45, 32, 49, 53, 37, 32, 32, 45720, 47532, 44592, 47196, 32, 54664, 45796, 33, 32>>,   \* "서울시는 내년 예산을 10% - 15%  늘리기로 했다! "
       <<51221, 48512, 45716, 32, 49436, 50872, 50640, 49436, 32, 49352, 47196, 50868, 32, 44221, 51228, 32, 51221, 52293, 51012, 32, 48156, 54364, 54664, 51012, 44620, 63, 32>> >>   \* "정부는 서울에서 새로운 경제 정책을 발표했을까? "

\* the sequences over S of length at most n
RECURSIVE SeqsUpTo(_, _)
SeqsUpTo(S, n) ==
    IF n = 0 THEN {<<>>}
    ELSE LET shorter == SeqsUpTo(S, n - 1)
         IN  shorter \cup {Append(q, x) : q \in shorter, x \in S}

\* the texts made of at most MaxFrags fragments
FragTexts ==
    {Concat([k \in 1..Len(q) |-> Fragments[q[k]]], 1, Len(q)) :
        q \in SeqsUpTo(1..Len(Fragments), MaxFrags)}

\* a byline with an e-mail address
Byline == <<44608, 32, 44592, 51088, 32, 114, 101, 112, 111, 114, 116, 115, 64, 101, 120, 97, 109, 112, 108, 101, 46, 99, 111, 109, 32>>   \* "김 기자 reports@example.com "
\* a photo credit
PhotoCredit == <<49324, 51652, 61, 50672, 54633, 45684, 49828>>   \* "사진=연합뉴스"

\* "김 기자 reports@example.com 오늘 서울에서 열린 행사는 성공적이었다. 참가자들은 매우
\*  만족했다고 밝혔다. 사진=연합뉴스"
BylineScenario == Byline \o Opening \o Closing \o PhotoCredit

\* "광광고고": the removal of '광고' leaves '광고'
NestedAd == <<44305, 44305, 44256, 44256>>

\* a sentence between two copies of another, and a last one: the sentences
\* are A, B, A, C
\* "서울시는 내년 예산을 10% - 15%  늘리기로 했다! 참가자들은 매우 만족했다고 밝혔다.
\*  서울시는 내년 예산을 10% - 15%  늘리기로 했다! 정부는 서울에서 새로운 경제 정책을
\*  발표했을까? "
RepeatedScenario == Fragments[2] \o Closing \o Fragments[2] \o Fragments[3]

\* n copies of s
Repeated(s, n) == Concat([k \in 1..n |-> s], 1, n)

\* eight sentences of five characters: "비가 온다. 비가 온다. ..."
ShortSentences == Repeated(<<48708, 44032, 32, 50728, 45796, 46, 32>>, 8)

\* two sentences, each with a marker of the filter
\* "사진=연합뉴스 제공 서울 시내의 풍경이다. 출처: 서울시청 홈페이지 자료를 참고했다고 한다. "
CreditsOnly == <<49324, 51652, 61, 50672, 54633, 45684, 49828, 32, 51228, 44277, 32, 49436, 50872, 32, 49884, 45236, 51032, 32, 54413, 44221, 51060, 45796, 46, 32, 52636, 52376, 58, 32, 49436, 50872, 49884, 52397, 32, 54856, 54168, 51060, 51648, 32, 51088, 47308, 47484, 32, 52280, 44256, 54664, 45796, 44256, 32, 54620, 45796, 46, 32>>

\* a sentence of 151 characters and one of 201, of words of one character:
\* "가 나 가 나 ... 서울시 예산안. 가 나 가 나 ... 정부의 경제 정책. "
LongSentences ==
    Repeated(<<44032, 32, 45208, 32>>, 36) \o <<49436, 50872, 49884, 32, 50696, 49328, 50504, 46, 32>> \o Repeated(<<44032, 32, 45208, 32>>, 48) \o <<51221, 48512, 51032, 32, 44221, 51228, 32, 51221, 52293, 46, 32>>

\* sentences of stop words and of words of one character, of which no term is
\* counted
\* "오늘 그리고 내일 하지만 어제 그런데 지금. "
StopWordsFirst == <<50724, 45720, 32, 44536, 47532, 44256, 32, 45236, 51068, 32, 54616, 51648, 47564, 32, 50612, 51228, 32, 44536, 47088, 45936, 32, 51648, 44552, 46, 32>>
\* "최근 또한 현재 그러나 당시 때문에 이후. "
StopWordsSecond == <<52572, 44540, 32, 46608, 54620, 32, 54788, 51116, 32, 44536, 47084, 45208, 32, 45817, 49884, 32, 46412, 47928, 50640, 32, 51060, 54980, 46, 32>>
\* "이것 그것 저것 이런 그런 저런 가 나. "
StopWordsThird == <<51060, 44163, 32, 44536, 44163, 32, 51200, 44163, 32, 51060, 47088, 32, 44536, 47088, 32, 51200, 47088, 32, 44032, 32, 45208, 46, 32>>
\* three of them, and four with the first one twice
StopWordsOnly == StopWordsFirst \o StopWordsSecond \o StopWordsThird
StopWordsRepeated == StopWordsFirst \o StopWordsSecond \o StopWordsFirst \o StopWordsThird

\* one sentence of more than 50 characters
\* "정부는 서울에서 열린 회의에서 새로운 경제 정책과 예산안을 함께 내놓고 시민들의 의견을 듣기로 했다고 밝혔다. "
SingleSentence == <<51221, 48512, 45716, 32, 49436, 50872, 50640, 49436, 32, 50676, 47536, 32, 54924, 51032, 50640, 49436, 32, 49352, 47196, 50868, 32, 44221, 51228, 32, 51221, 52293, 44284, 32, 50696, 49328, 50504, 51012, 32, 54632, 44760, 32, 45236, 45459, 44256, 32, 49884, 48124, 46308, 51032, 32, 51032, 44204, 51012, 32, 46307, 44592, 47196, 32, 54664, 45796, 44256, 32, 48157, 54804, 45796, 46, 32>>

\* a sentence with the word '요약', before two others
\* "정부는 회의 결과를 요약해서 발표했다고 한다. 오늘 서울에서 열린 행사는 성공적이었다.
\*  참가자들은 매우 만족했다고 밝혔다. "
DigestScenario == <<51221, 48512, 45716, 32, 54924, 51032, 32, 44208, 44284, 47484, 32, 50836, 50557, 54644, 49436, 32, 48156, 54364, 54664, 45796, 44256, 32, 54620, 45796, 46, 32>> \o Opening \o Closing

\* the texts given to summarize_text, and those given to simple_summarize
SummaryTexts == FragTexts \cup {BylineScenario, NestedAd, DigestScenario, None}
SentenceTexts ==
    SummaryTexts \cup {RepeatedScenario, ShortSentences, CreditsOnly, LongSentences,
                        StopWordsOnly, StopWordsRepeated, SingleSentence}
Contents == FragTexts \cup {BylineScenario, NestedAd}

\* the words of the keyword texts
\* "정치"
Politics == <<51221, 52824>>
\* "서울시청"
CityHall == <<49436, 50872, 49884, 52397>>
Vocabulary ==
    << Politics, CityHall,
       <<44221, 51228>>,    \* "경제"
       <<45684, 49828>> >>  \* "뉴스", a stop word

\* the texts of at most MaxWords words, and those of a copies of "정치" and b
\* of "서울시청" (a, b <= MaxCount), the words separated by a space
WordTexts ==
    {Join(<<32>>, [k \in 1..Len(q) |-> Vocabulary[q[k]]]) :
        q \in SeqsUpTo(1..Len(Vocabulary), MaxWords)}
CountTexts ==
    {Join(<<32>>, [k \in 1..(a + b) |-> IF k <= a THEN Politics ELSE CityHall]) :
        a \in 0..MaxCount, b \in 0..MaxCount}
\* two words that differ in the case of a letter
CaseScenario == <<83, 101, 111, 117, 108, 32, 115, 101, 111, 117, 108>>   \* "Seoul seoul"
\* two words of equal weighted frequency (2 * 1.5 = 3), the longer first
TieScenario == <<49436, 50872, 49884, 52397, 32, 49436, 50872, 49884, 52397, 32, 51221, 52824, 32, 51221, 52824, 32, 51221, 52824>>   \* "서울시청 서울시청 정치 정치 정치"
\* a token of two scripts and a word of two Latin letters, each twice
MixedScenario == <<65, 73, 44592, 49696, 32, 65, 73, 44592, 49696, 32, 65, 73, 32, 65, 73>>   \* "AI기술 AI기술 AI AI"
KeywordTexts == WordTexts \cup CountTexts \cup {CaseScenario, TieScenario, MixedScenario, None}

\* the most entries of a feed
MaxEntries == 2

\* the links of two articles
\* "https://www.mk.co.kr/news/economy/11234567"
MkLink == <<104, 116, 116, 112, 115, 58, 47, 47, 119, 119, 119, 46, 109, 107, 46, 99, 111, 46, 107, 114, 47, 110, 101, 119, 115, 47, 101, 99, 111, 110, 111, 109, 121, 47, 49, 49, 50, 51, 52, 53, 54, 55>>
\* "https://news.sbs.co.kr/news/endPage.do?news_id=N1007654321"
SbsLink == <<104, 116, 116, 112, 115, 58, 47, 47, 110, 101, 119, 115, 46, 115, 98, 115, 46, 99, 111, 46, 107, 114, 47, 110, 101, 119, 115, 47, 101, 110, 100, 80, 97, 103, 101, 46, 100, 111, 63, 110, 101, 119, 115, 95, 105, 100, 61, 78, 49, 48, 48, 55, 54, 53, 52, 51, 50, 49>>
Links == <<MkLink, SbsLink>>

\* the entries of the feeds: two of one link, with titles that differ, and one
\* whose description has the keyword that its title has not
Entries ==
    << [title |-> <<65, 73, 32, 48152, 46020, 52404, 32, 49688, 52636, 32, 51613, 44032>>, link |-> MkLink, description |-> <<>>],
       [title |-> <<49436, 50872, 32, 44221, 51228, 32, 54252, 47100, 32, 44060, 52572>>, link |-> SbsLink, description |-> <<65, 73, 32, 49328, 50629, 32, 51204, 47581>>],
       [title |-> <<65, 73, 32, 48152, 46020, 52404, 32, 49688, 52636, 32, 44553, 51613>>, link |-> MkLink, description |-> <<>>] >>

\* what the parse of a feed gives: an exception, or the entries at the
\* positions q of Entries
Failed == [raised |-> TRUE, entries |-> <<>>]
Parsed(q) == [raised |-> FALSE, entries |-> [k \in 1..Len(q) |-> Entries[q[k]]]]
\* an exception, or at most MaxEntries entries
ParsedFeeds == {Failed} \cup {Parsed(q) : q \in SeqsUpTo(1..Len(Entries), MaxEntries)}

\* the feeds of the categories
AllFeeds == [Range(Categories) -> ParsedFeeds]

\* the values of selected_categories: None, one category, the two in the
\* reverse order, and a category with a key that rss_feeds has not
\* ("연합뉴스_날씨")
SelectedLists ==
    { NoSelection, Listed(<<MkEconomy>>), Listed(<<SbsHeadlines, MkEconomy>>),
      Listed(<<<<50672, 54633, 45684, 49828, 95, 45216, 50472>>, SbsHeadlines>>) }

\* the most invocations in progress at a time
MaxCallers == 2
Callers == 1..MaxCallers

\* the frame of a caller that is in no invocation
Idle ==
    [method |-> "none", pc |-> "idle", text |-> <<>>, count |-> 0, sentences |-> <<>>,
     words |-> <<>>, keys |-> <<>>, selected |-> <<>>, final |-> <<>>, result |-> <<>>]

(***************************************************************************)
(* The state: the TextProcessor (use_sumy) and the last call, with its     *)
(* arguments, the values of its locals at its return, and its result.      *)
(***************************************************************************)
VARIABLES
    use_sumy,    \* TextProcessor.use_sumy
    op,          \* "new", "ready", or the name of the method called
    text,        \* the text argument
    count,       \* max_sentences, sentences_count or top_k
    handed,      \* summarize_text: the text handed to the summarizer
    sentences,   \* simple_summarize: the local sentences
    final,       \* simple_summarize: the positions in sentences of final_sentences
    by_sumy,     \* summarize_text: whether the result is Sumy's
    result,      \* the returned value
    calls,       \* the invocations in progress, one frame of locals per caller
    rss,         \* get_all_rss_feeds: the argument, all_articles and the returned list
    session_state,   \* st.session_state
    shown        \* main: the message of lines 1321-1337 that the run displays

vars ==
    <<use_sumy, op, text, count, handed, sentences, final, by_sumy, result, calls, rss,
      session_state, shown>>

Init ==
    /\ use_sumy = FALSE
    /\ op = "new"
    /\ text = <<>>
    /\ count = 0
    /\ handed = <<>>
    /\ sentences = <<>>
    /\ final = <<>>
    /\ by_sumy = FALSE
    /\ result = <<>>
    /\ calls = [c \in Callers |-> Idle]
    /\ rss = NoCall
    /\ session_state = NewSession
    /\ shown = <<>>

\* TextProcessor.__init__: use_sumy tells whether the Sumy imports succeeded
TextProcessorInit ==
    /\ op = "new"
    /\ \E imported \in BOOLEAN : use_sumy' = imported
    /\ op' = "ready"
    /\ UNCHANGED <<text, count, handed, sentences, final, by_sumy, result, calls,
                   rss, session_state, shown>>

\* a call of summarize_text(t, n), for each outcome of its Sumy call
SummarizeText(t) ==
    /\ op = "ready"
    /\ \E pre \in {IF Falsy(t) THEN <<>> ELSE Preprocess(t)} :
       \E n \in 1..MaxSentences :
       \E simple \in {simple_summarize(pre, n)} :
       \E sumy \in IF use_sumy THEN SumyOutcomes(pre, n)
                   ELSE {[raised |-> TRUE, summary |-> <<>>]} :
       \E r \in {summarize_text(t, pre, n, use_sumy, sumy, simple)} :
          /\ op' = "summarize_text"
          /\ text' = t
          /\ count' = n
          /\ handed' = r.handed
          /\ sentences' = r.sentences
          /\ final' = r.final
          /\ by_sumy' = r.by_sumy
          /\ result' = r.result
    /\ UNCHANGED <<use_sumy, calls, rss, session_state, shown>>

\* a call of simple_summarize(t, n)
SimpleSummarize(t, n) ==
    /\ op = "ready"
    /\ \E r \in {simple_summarize(t, n)} :
       /\ op' = "simple_summarize"
       /\ text' = t
       /\ count' = n
       /\ sentences' = r.sentences
       /\ final' = r.final
       /\ result' = r.result
    /\ UNCHANGED <<use_sumy, handed, by_sumy, calls, rss, session_state, shown>>

\* a call of extract_keywords(t, k)
ExtractKeywords(t, k) ==
    /\ op = "ready"
    /\ op' = "extract_keywords"
    /\ text' = t
    /\ count' = k
    /\ result' = extract_keywords(t, k)
    /\ UNCHANGED <<use_sumy, handed, sentences, final, by_sumy, calls,
                   rss, session_state, shown>>

\* crawl_article_content, from the text c extracted from the page on
CrawlArticleContent(c) ==
    /\ op = "ready"
    /\ op' = "crawl_article_content"
    /\ text' = c
    /\ result' = crawl_article_content(c)
    /\ UNCHANGED <<use_sumy, count, handed, sentences, final, by_sumy, calls,
                   rss, session_state, shown>>

Next ==
    \/ TextProcessorInit
    \/ \E t \in SummaryTexts : SummarizeText(t)
    \/ \E t \in SentenceTexts, n \in 1..MaxSentences : SimpleSummarize(t, n)
    \/ \E t \in KeywordTexts, k \in 1..MaxTopK : ExtractKeywords(t, k)
    \/ \E c \in Contents : CrawlArticleContent(c)

Spec == Init /\ [][Next]_vars

(***************************************************************************)
(* Concurrent invocations of simple_summarize and extract_keywords on one  *)
(* TextProcessor.  Each invocation has its frame of local variables; the   *)
(* statements of the methods read and assign those and nothing else (no    *)
(* attribute of self, no global), and a step of the model is a group of    *)
(* statements of one invocation.                                           *)
(***************************************************************************)
\* the texts of the callers: the caller c summarizes CallerTexts[c] and extracts
\* the keywords of CallerWords[c], so that no two callers have the same input
CallerTexts ==
    << Fragments[1] \o Fragments[2], RepeatedScenario, Fragments[3] \o Fragments[1] >>
CallerWords ==
    << TieScenario,
       <<44221, 51228, 32, 51221, 52824, 32, 44221, 51228>>,          \* "경제 정치 경제"
       <<49436, 50872, 49884, 52397, 32, 44221, 51228, 32, 49436, 50872, 49884, 52397>> >>  \* "서울시청 경제 서울시청"

\* a variant of Locals: one frame for all the callers, as if the local variables
\* were attributes of the TextProcessor
LocalsOfFirst(frames, c) == frames[1]

\* the local variables of the invocation of the caller c
Locals(frames, c) == frames[c]

\* the caller c calls simple_summarize(t, n)
CallSimpleSummarize(c, t, n) ==
    /\ op = "ready"
    /\ calls[c].pc = "idle"
    /\ calls' = [calls EXCEPT ![c] = [Idle EXCEPT !.method = "simple_summarize",
                                                  !.pc = "check", !.text = t, !.count = n]]
    /\ UNCHANGED <<use_sumy, op, text, count, handed, sentences, final, by_sumy, result,
                   rss, session_state, shown>>

\* lines 368-369
CheckLength(c) ==
    /\ calls[c].pc = "check"
    /\ calls' = IF Falsy(Locals(calls, c).text)
                   \/ Len(Strip(Locals(calls, c).text)) < MinTextLen
                THEN [calls EXCEPT ![c].result = InsufficientInput, ![c].pc = "done"]
                ELSE [calls EXCEPT ![c].pc = "segment"]
    /\ UNCHANGED <<use_sumy, op, text, count, handed, sentences, final, by_sumy, result,
                   rss, session_state, shown>>

\* lines 372-409
SegmentText(c) ==
    /\ calls[c].pc = "segment"
    /\ \E ss \in {Segment(Locals(calls, c).text)} :
          calls' = IF Len(ss) = 0
                   THEN [calls EXCEPT ![c].result = SegmentationExhausted, ![c].pc = "done"]
                   ELSE [calls EXCEPT ![c].sentences = ss, ![c].pc = "count"]
    /\ UNCHANGED <<use_sumy, op, text, count, handed, sentences, final, by_sumy, result,
                   rss, session_state, shown>>

\* lines 412-439: the words that word_freq counts
CountWords(c) ==
    /\ calls[c].pc = "count"
    /\ calls' = [calls EXCEPT ![c].words = ExtractTerms(Join(<<32>>, Locals(calls, c).sentences)),
                              ![c].pc = "score"]
    /\ UNCHANGED <<use_sumy, op, text, count, handed, sentences, final, by_sumy, result,
                   rss, session_state, shown>>

\* lines 442-475: sentence_scores and summary_sentences
ScoreSentences(c) ==
    /\ calls[c].pc = "score"
    /\ \E f \in {Locals(calls, c)} :
          calls' = [calls EXCEPT ![c].selected = BestScored(f.sentences, f.words,
                                                            DictKeys(f.sentences), f.count),
                                 ![c].pc = "select"]
    /\ UNCHANGED <<use_sumy, op, text, count, handed, sentences, final, by_sumy, result,
                   rss, session_state, shown>>

\* lines 478-483
SelectSentences(c) ==
    /\ calls[c].pc = "select"
    /\ \E f \in {Locals(calls, c)} :
          calls' = [calls EXCEPT ![c].final = FinalSentences(f.sentences, f.selected, f.count),
                                 ![c].pc = "assemble"]
    /\ UNCHANGED <<use_sumy, op, text, count, handed, sentences, final, by_sumy, result,
                   rss, session_state, shown>>

\* lines 485-489
Assemble(c) ==
    /\ calls[c].pc = "assemble"
    /\ \E f \in {Locals(calls, c)} :
          calls' = [calls EXCEPT ![c].result = AssembleSummary(f.sentences, f.final),
                                 ![c].pc = "done"]
    /\ UNCHANGED <<use_sumy, op, text, count, handed, sentences, final, by_sumy, result,
                   rss, session_state, shown>>

\* the caller c calls extract_keywords(t, k)
CallExtractKeywords(c, t, k) ==
    /\ op = "ready"
    /\ calls[c].pc = "idle"
    /\ calls' = [calls EXCEPT ![c] = [Idle EXCEPT !.method = "extract_keywords",
                                                  !.pc = "words", !.text = t, !.count = k]]
    /\ UNCHANGED <<use_sumy, op, text, count, handed, sentences, final, by_sumy, result,
                   rss, session_state, shown>>

\* lines 613-617
FindWords(c) ==
    /\ calls[c].pc = "words"
    /\ calls' = IF Falsy(Locals(calls, c).text)
                THEN [calls EXCEPT ![c].pc = "done"]
                ELSE [calls EXCEPT ![c].words = KeywordWords(Locals(calls, c).text),
                                   ![c].pc = "keys"]
    /\ UNCHANGED <<use_sumy, op, text, count, handed, sentences, final, by_sumy, result,
                   rss, session_state, shown>>

\* lines 643-651: the keys of word_freq
CountKeywords(c) ==
    /\ calls[c].pc = "keys"
    /\ calls' = [calls EXCEPT ![c].keys = CountedWords(Locals(calls, c).words), ![c].pc = "rank"]
    /\ UNCHANGED <<use_sumy, op, text, count, handed, sentences, final, by_sumy, result,
                   rss, session_state, shown>>

\* line 654
RankKeywords(c) ==
    /\ calls[c].pc = "rank"
    /\ \E f \in {Locals(calls, c)} :
          calls' = [calls EXCEPT ![c].selected = Ranked(f.words, f.keys, f.count),
                                 ![c].pc = "filter"]
    /\ UNCHANGED <<use_sumy, op, text, count, handed, sentences, final, by_sumy, result,
                   rss, session_state, shown>>

\* line 655
FilterKeywords(c) ==
    /\ calls[c].pc = "filter"
    /\ \E f \in {Locals(calls, c)} :
          calls' = [calls EXCEPT ![c].result = Qualifying(f.words, f.selected),
                                 ![c].pc = "done"]
    /\ UNCHANGED <<use_sumy, op, text, count, handed, sentences, final, by_sumy, result,
                   rss, session_state, shown>>

\* the invocation of the caller c has returned and its frame is dropped
Return(c) ==
    /\ calls[c].pc = "done"
    /\ calls' = [calls EXCEPT ![c] = Idle]
    /\ UNCHANGED <<use_sumy, op, text, count, handed, sentences, final, by_sumy, result,
                   rss, session_state, shown>>

ConcurrentNext ==
    \/ TextProcessorInit
    \/ \E c \in Callers : CallSimpleSummarize(c, CallerTexts[c], MaxSentences)
    \/ \E c \in Callers : CallExtractKeywords(c, CallerWords[c], MaxTopK)
    \/ \E c \in Callers : CheckLength(c)
    \/ \E c \in Callers : SegmentText(c)
    \/ \E c \in Callers : CountWords(c)
    \/ \E c \in Callers : ScoreSentences(c)
    \/ \E c \in Callers : SelectSentences(c)
    \/ \E c \in Callers : Assemble(c)
    \/ \E c \in Callers : FindWords(c)
    \/ \E c \in Callers : CountKeywords(c)
    \/ \E c \in Callers : RankKeywords(c)
    \/ \E c \in Callers : FilterKeywords(c)
    \/ \E c \in Callers : Return(c)

Concurrent == Init /\ [][ConcurrentNext]_vars

(***************************************************************************)
(* The collection of news: get_all_rss_feeds, and the runs of main on one  *)
(* session.                                                                *)
(***************************************************************************)
\* a call of get_all_rss_feeds(selected_categories), feeds being what the feeds
\* return
GetAllRssFeeds(selected_categories, feeds) ==
    /\ op = "ready"
    /\ op' = "get_all_rss_feeds"
    /\ \E all_articles \in {AllArticles(SelectedCategories(selected_categories), feeds)} :
          rss' = [selected_categories |-> selected_categories,
                  all_articles |-> all_articles,
                  unique_articles |-> UniqueArticles(all_articles)]
    /\ UNCHANGED <<use_sumy, text, count, handed, sentences, final, by_sumy, result, calls,
                   session_state, shown>>

(***************************************************************************)
(* The runs of main                                                        *)
(***************************************************************************)
\* the text extracted from a page with an article: four sentences
Body == Opening \o Closing \o Fragments[3]

\* what the request of a link gives (lines 175-241 and 305-306): a page with
\* the article, a page from which no text is extracted, and the exceptions of
\* requests "Exceeded 30 redirects." and "404 Client Error: Not Found for
\* url: " with the link
Extracted(content) == [raised |-> FALSE, message |-> <<>>, extracted |-> content]
Raising(message) == [raised |-> TRUE, message |-> message, extracted |-> <<>>]
Pages(link) ==
    << Extracted(Body), Extracted(<<>>),
       Raising(<<69, 120, 99, 101, 101, 100, 101, 100, 32, 51, 48, 32, 114, 101, 100, 105, 114, 101, 99, 116, 115, 46>>),
       Raising(<<52, 48, 52, 32, 67, 108, 105, 101, 110, 116, 32, 69, 114, 114, 111, 114, 58, 32, 78, 111, 116, 32, 70, 111, 117, 110, 100, 32, 102, 111, 114, 32, 117, 114, 108, 58, 32>> \o link) >>

\* a site gives each link one of its pages
Sites == [1..Len(Links) -> 1..Len(Pages(<<>>))]

\* the feeds of a run: both raise; one entry of a link and two of the links;
\* two entries of one link and a feed that raises
MainFeeds ==
    { [c \in Range(Categories) |-> Failed],
      [c \in Range(Categories) |-> IF c = MkEconomy THEN Parsed(<<1>>) ELSE Parsed(<<2, 3>>)],
      [c \in Range(Categories) |-> IF c = MkEconomy THEN Parsed(<<3, 1>>) ELSE Failed] }

\* the values of the text input of line 1213: empty, without a keyword (" , "),
\* "AI", "경제" and "ai, 경제"
KeywordInputs ==
    { <<>>, <<32, 44, 32>>, <<65, 73>>, <<44221, 51228>>, <<97, 105, 44, 32, 44221, 51228>> }

SummaryMethods == <<KoreanOptimized, SumyLibrary>>
SumyRuns == <<"absent", "raises", "leading">>

\* where a run raises, if it does: in collect_news_with_content, or in the loop
\* of lines 1292-1307
Faults == {"none", "collection", "analysis"}

\* crawl_article_content for the pages of the links, and the summaries and the
\* keywords of lines 1297-1302 for what it returns, computed once
Crawled ==
    [l \in 1..Len(Links) |->
        [p \in 1..Len(Pages(Links[l])) |-> CrawlPage(Pages(Links[l])[p])] \o <<>>] \o <<>>
Summaries ==
    [l \in 1..Len(Links) |->
        [p \in 1..Len(Crawled[l]) |->
            [m \in 1..Len(SummaryMethods) |->
                [s \in 1..Len(SumyRuns) |->
                    SummaryBy(SummaryMethods[m], Crawled[l][p], SumyRuns[s])] \o <<>>]
            \o <<>>] \o <<>>] \o <<>>
ExtractedKeywords ==
    [l \in 1..Len(Links) |->
        [p \in 1..Len(Crawled[l]) |-> extract_keywords(Crawled[l][p], keyword_count)]
        \o <<>>] \o <<>>

\* the position of a link, of a method and of a run of Sumy
LinkOf(link) == CHOOSE l \in 1..Len(Links) : Links[l] = link
MethodOf(summary_method) == CHOOSE m \in 1..Len(SummaryMethods) : SummaryMethods[m] = summary_method
SumyRunOf(sumy) == CHOOSE s \in 1..Len(SumyRuns) : SumyRuns[s] = sumy

\* lines 331-339: the matching articles with the content of their pages
Crawl(filtered_articles, site) ==
    [k \in 1..Len(filtered_articles) |->
        WithContent(filtered_articles[k],
                    Crawled[LinkOf(filtered_articles[k].link)]
                           [site[LinkOf(filtered_articles[k].link)]])]

\* collect_news_with_content(keywords)
collect_news_with_content(keywords, feeds, site) == Crawl(Matching(keywords, feeds), site)

\* lines 1292-1307: processed_articles
ProcessedArticles(articles, site, summary_method, sumy) ==
    [k \in 1..Len(articles) |->
        Processed(articles[k],
                  Summaries[LinkOf(articles[k].link)][site[LinkOf(articles[k].link)]]
                           [MethodOf(summary_method)][SumyRunOf(sumy)],
                  ExtractedKeywords[LinkOf(articles[k].link)][site[LinkOf(articles[k].link)]])]

\* the end of a run: the session state it leaves and the message it shows
Rerun(state, message) ==
    /\ session_state' = state
    /\ shown' = message

\* lines 1286-1330: the analysis of the articles found
Analysis(state, keywords, articles, site, fault) ==
    IF fault = "analysis" THEN Rerun(state, ErrorRaised)
    ELSE \E summary_method \in Range(SummaryMethods) :
            \E sumy \in IF summary_method = KoreanOptimized THEN {"absent"}
                        ELSE Range(SumyRuns) :
               Rerun(Stored(state, ProcessedArticles(articles, site, summary_method, sumy),
                            keywords),
                     Success)

\* lines 1275-1335: a search with keywords
Search(state, keywords, articles, site, fault) ==
    IF articles = <<>> THEN Rerun(state, NoArticles)
    ELSE Analysis(state, keywords, articles, site, fault)

\* lines 1200-1337, from the session state of lines 1201-1204 on
main(state, search_button, keywords_input, keywords) ==
    IF ~(search_button /\ keywords_input # <<>>) THEN Rerun(state, <<>>)
    ELSE IF keywords = <<>> THEN Rerun(state, NoKeywords)
    ELSE \E fault \in Faults :
            IF fault = "collection" THEN Rerun(state, ErrorRaised)
            ELSE \E feeds \in MainFeeds, site \in Sites :
                    Search(state, keywords, collect_news_with_content(keywords, feeds, site),
                           site, fault)

\* a run of the script main, the first of a session or a rerun
Main ==
    /\ op \in {"ready", "main"}
    /\ op' = "main"
    /\ \E search_button \in BOOLEAN, keywords_input \in KeywordInputs :
          main(Initialized(session_state), search_button, keywords_input,
               Keywords(keywords_input))
    /\ UNCHANGED <<use_sumy, text, count, handed, sentences, final, by_sumy, result, calls, rss>>

CollectionNext ==
    \/ TextProcessorInit
    \/ Main
    \/ \E selected_categories \in SelectedLists, feeds \in AllFeeds :
          GetAllRssFeeds(selected_categories, feeds)

Collection == Init /\ [][CollectionNext]_vars
(***************************************************************************)
(* Properties.                                                             *)
(***************************************************************************)
\* the call that has returned is one of the summarizer simple_summarize
Summarized ==
    op = "simple_summarize" \/ (op = "summarize_text" /\ ~by_sumy)

\* the position of x in the sequence xs, 0 when it is not in it
PosIn(xs, x) ==
    IF \E k \in 1..Len(xs) : xs[k] = x
    THEN Min({k \in 1..Len(xs) : xs[k] = x})
    ELSE 0

\* s has two consecutive whitespace characters
HasWhitespaceRun(s) ==
    \E i \in 1..(Len(s) - 1) : IsSpace(s[i]) /\ IsSpace(s[i + 1])

\* C1 (as the specification states it): a text whose normalized form is shorter
\* than 50 characters is answered by the InsufficientInput sentinel, by
\* summarize_text with or without Sumy and by simple_summarize on the
\* normalized text.  (handed is the normalized text; it is empty when the text
\* itself was shorter than 50 characters, and no rule lengthens a text.)
C1_SentinelBelowMinimum ==
    /\ (op = "summarize_text" /\ Len(handed) < MinTextLen) => result = InsufficientInput
    /\ (op = "simple_summarize" /\ ~Falsy(text) /\ Len(Strip(text)) < MinTextLen)
          => result = InsufficientInput

\* C2: the sentences of a summary of simple_summarize are in the order of the
\* segmented sequence: the positions of the selected sentences increase
\* strictly, and the summary is assembled from them in that order.
C2_OrderPreserved ==
    (Summarized /\ Len(sentences) > 0) =>
        /\ \A a, b \in 1..Len(final) : a < b => final[a] < final[b]
        /\ \A a \in 1..Len(final) : final[a] \in 1..Len(sentences)
        /\ result = AssembleSummary(sentences, final)

\* the sequence xs has two elements whose order in xs is the reverse of their
\* order in the sentences
Inverted(xs) ==
    \E a, b \in 1..Len(xs) : a < b /\ IndexOf(sentences, xs[a]) > IndexOf(sentences, xs[b])

\* a summary whose sentences, in the order of their scores, are not in the
\* order of the text
C2_Witness ==
    /\ op = "simple_summarize"
    /\ Len(final) >= 2
    /\ Inverted(SummarySentences(sentences, count))

\* C3: with N >= 1 segmented sentences, repeated ones included, the summary of
\* simple_summarize has exactly min(max_sentences, N) sentences.
C3_SentenceCount ==
    (Summarized /\ Len(sentences) >= 1) =>
        Len(final) = (IF count < Len(sentences) THEN count ELSE Len(sentences))

\* a text with repeated sentences: fewer distinct sentences than max_sentences,
\* and more sentences than max_sentences
C3_Witness ==
    /\ op = "simple_summarize"
    /\ Len(DictKeys(sentences)) < count
    /\ count < Len(sentences)
    /\ Len(final) = count

\* C4: extract_keywords returns at most top_k terms, each of weighted frequency
\* at least 2 (4 halves); a term that occurs once is never returned.
C4_KeywordBound ==
    (op = "extract_keywords" /\ ~Falsy(text)) =>
        /\ Len(result) <= count
        /\ \A k \in 1..Len(result) :
              /\ WeightedFreq(KeywordWords(text), result[k]) >= 2 * MinFrequency
              /\ CountIn(KeywordWords(text), result[k]) >= 2

\* keywords are returned from a text that also has a word of four or more
\* characters occurring once
C4_Witness ==
    /\ op = "extract_keywords"
    /\ ~Falsy(text)
    /\ result # <<>>
    /\ \E k \in 1..Len(KeywordWords(text)) :
          LET w == KeywordWords(text)[k]
          IN  /\ Len(w) >= BoostLen
              /\ w \notin KeywordStopWords
              /\ CountIn(KeywordWords(text), w) = 1

\* the text has "정치" five times and "서울시청" three times, and top_k is 5
FiveAndThree ==
    /\ op = "extract_keywords"
    /\ ~Falsy(text)
    /\ count = 5
    /\ CountIn(KeywordWords(text), Politics) = 5
    /\ CountIn(KeywordWords(text), CityHall) = 3

\* C5 (as the specification states it): with "정치" five times and "서울시청" three
\* times, extract_keywords with top_k = 5 ranks "서울시청" above "정치".
C5_BoostedOutranks ==
    FiveAndThree =>
        /\ PosIn(result, CityHall) > 0
        /\ PosIn(result, CityHall) < PosIn(result, Politics)

\* C5 (amended): with "정치" five times (weight 5) and "서울시청" three times
\* (weight 4.5), extract_keywords with top_k = 5 returns both and ranks "정치"
\* above "서울시청".
C5_HigherWeightOutranks ==
    FiveAndThree =>
        /\ PosIn(result, Politics) > 0
        /\ PosIn(result, Politics) < PosIn(result, CityHall)

C5_Witness == FiveAndThree /\ result = <<Politics, CityHall>>

\* C6: of two counted terms of equal raw frequency, one of four or more
\* characters and one shorter, the longer has 1.5 times the weighted score of
\* the shorter, and is returned before the shorter whenever the shorter is
\* returned.
C6_BoostMonotone ==
    (op = "extract_keywords" /\ ~Falsy(text)) =>
        LET words == KeywordWords(text)
            keys  == CountedWords(words)
        IN  \A a, b \in 1..Len(keys) :
                (/\ Len(keys[a]) >= BoostLen
                 /\ Len(keys[b]) < BoostLen
                 /\ CountIn(words, keys[a]) = CountIn(words, keys[b]))
                => /\ 2 * WeightedFreq(words, keys[a]) = 3 * WeightedFreq(words, keys[b])
                   /\ PosIn(result, keys[b]) > 0 =>
                         /\ PosIn(result, keys[a]) > 0
                         /\ PosIn(result, keys[a]) < PosIn(result, keys[b])

\* both are returned, the longer first although the shorter comes first in the
\* text
C6_Witness ==
    /\ op = "extract_keywords"
    /\ ~Falsy(text)
    /\ LET words == KeywordWords(text)
       IN  \E a, b \in 1..Len(result) :
              /\ a < b
              /\ Len(result[a]) >= BoostLen
              /\ Len(result[b]) < BoostLen
              /\ CountIn(words, result[a]) = CountIn(words, result[b])
              /\ PosIn(words, result[b]) < PosIn(words, result[a])

\* C7 (as the specification states it): the normalized text, of the crawler's
\* pipeline and of the preprocessing of summarize_text, has no two consecutive
\* whitespace characters.
C7_NoWhitespaceRun ==
    /\ op = "summarize_text" => ~HasWhitespaceRun(handed)
    /\ op = "crawl_article_content" => ~HasWhitespaceRun(result)

\* C8 (as the specification states it): normalizing a normalized text changes
\* nothing, in the crawler's pipeline and in the preprocessing of
\* summarize_text.
C8_Idempotent ==
    /\ (op = "summarize_text" /\ handed # <<>>) => Preprocess(handed) = handed
    /\ (op = "crawl_article_content" /\ text # <<>>) =>
          CleanContent(CleanContent(text)) = CleanContent(text)

\* no word of the text is counted with a weighted frequency of 2 or more
NoQualifyingTerm ==
    \A k \in 1..Len(KeywordWords(text)) :
        LET words == KeywordWords(text)
            w     == words[k]
        IN  \/ Len(w) < MinWordLen
            \/ w \in KeywordStopWords
            \/ (IF Len(w) >= BoostLen THEN 3 ELSE 2) * CountIn(words, w) < 2 * MinFrequency

\* C9: extract_keywords returns the empty list for an empty text, for None, and
\* for a text of which no term meets the frequency threshold.
C9_EmptyKeywords ==
    (op = "extract_keywords" /\ (Falsy(text) \/ NoQualifyingTerm)) => result = <<>>

\* extract_keywords('', 5)
C9_Witness ==
    op = "extract_keywords" /\ text = <<>> /\ count = 5 /\ result = <<>>

\* "오늘 서울에서 열린 행사는 성공적이었다. 참가자들은 매우 만족했다고 밝혔다."
BylineScenarioBody == Strip(Opening \o Closing)

\* C10 (as the specification states it): for the byline scenario with
\* max_sentences = 2 the summary is its two sentences in their order, ending
\* with a period.
C10_TwoSentenceSummary ==
    (op = "summarize_text" /\ text = BylineScenario /\ count = 2) =>
        result = BylineScenarioBody

\* C10 (amended): for the byline scenario with max_sentences = 2, normalization
\* strips the byline, the e-mail address and the photo credit and leaves the two
\* sentences, 42 characters; when the summary is the one of simple_summarize
\* (Sumy unavailable, raising or rejected) the result is the InsufficientInput
\* sentinel and no sentence is segmented.
C10_BylineScenarioInsufficient ==
    (op = "summarize_text" /\ text = BylineScenario /\ count = 2) =>
        /\ handed = BylineScenarioBody
        /\ Len(handed) < MinTextLen
        /\ ~by_sumy => (result = InsufficientInput /\ sentences = <<>>)

C10_Witness ==
    /\ op = "summarize_text"
    /\ text = BylineScenario
    /\ count = 2
    /\ ~use_sumy
    /\ result = InsufficientInput

\* the sentinels of simple_summarize
Sentinels == {InsufficientInput, SegmentationExhausted}

\* the selected sentences joined by '. '
Joined == Join(<<46, 32>>, At(sentences, final))

\* the result is joined, with a period appended if and only if joined does not
\* end with one, and ends with a period
Terminated(joined) ==
    /\ result = joined \o (IF EndsWith(joined, <<46>>) THEN <<>> ELSE <<46>>)
    /\ EndsWith(result, <<46>>)

\* C11: every result of simple_summarize that is not a sentinel is its selected
\* sentences joined by '. ', with a period appended if and only if the joined
\* string does not end with one, and it ends with a period.
C11_JoinedAndTerminated ==
    (Summarized /\ result \notin Sentinels) => (Len(final) >= 1 /\ Terminated(Joined))

\* a summary of two sentences or more
C11_Witness ==
    /\ op = "simple_summarize"
    /\ result \notin Sentinels
    /\ Len(final) >= 2
    /\ Contains(result, <<46, 32>>)

\* C12 (as the specification states it): the sentences of the summary are the
\* first max_sentences entries of the stable sort of the scored sentences by
\* descending score, also when a sentence occurs at more than one index: every
\* selected sentence is in the summary.
C12_TopScoredInSummary ==
    (Summarized /\ Len(sentences) > 0) =>
        Range(At(sentences, final)) = Range(SummarySentences(sentences, count))

\* "요약 생성 중 오류 발생: ..."
IsSummaryError(s) == Len(s) >= Len(SummaryError) /\ LitAt(s, 1, SummaryError)

\* C13: the result of simple_summarize and of summarize_text is the
\* InsufficientInput sentinel, the SegmentationExhausted sentinel, or a summary
\* of at least one sentence (of simple_summarize: its selected sentences; of
\* Sumy: a text of more than 20 characters); it is none of the other
\* placeholders.
C13_DocumentedResults ==
    op \in {"simple_summarize", "summarize_text"} =>
        /\ result \notin {NoScores, NoSummary}
        /\ ~IsSummaryError(result)
        /\ \/ result \in Sentinels
           \/ by_sumy /\ Len(result) > MinSumyLen
           \/ ~by_sumy /\ Len(final) >= 1 /\ result = AssembleSummary(sentences, final)

\* a text of 50 characters or more without a sentence: SegmentationExhausted
C13_Witness ==
    /\ op = "simple_summarize"
    /\ Len(Strip(text)) >= MinTextLen
    /\ result = SegmentationExhausted

\* no two of the words ws differ only in the case of their letters
CaseFolded(ws) ==
    \A a, b \in 1..Len(ws) : Lower(ws[a]) = Lower(ws[b]) => ws[a] = ws[b]

\* the keys of word_freq of simple_summarize
SummaryTerms(all_words) == SelectSeq(all_words, LAMBDA w : WordFreq(all_words, w) > 0)

\* C14 (as the specification states it): two occurrences that differ only in
\* the case of their letters are one term of the frequency table, of
\* extract_keywords and of simple_summarize.
C14_CaseFoldedTerms ==
    /\ (op = "extract_keywords" /\ ~Falsy(text)) => CaseFolded(CountedWords(KeywordWords(text)))
    /\ (Summarized /\ Len(sentences) > 0) =>
          CaseFolded(SummaryTerms(ExtractTerms(Join(<<32>>, sentences))))

\* the keywords are in non-increasing order of weighted frequency, and those of
\* equal weighted frequency in the order of their first occurrence in words
OrderedByWeight(words, keywords) ==
    \A a, b \in 1..Len(keywords) :
        a < b =>
            /\ WeightedFreq(words, keywords[a]) >= WeightedFreq(words, keywords[b])
            /\ WeightedFreq(words, keywords[a]) = WeightedFreq(words, keywords[b])
                  => PosIn(words, keywords[a]) < PosIn(words, keywords[b])

\* C15: the keywords returned by extract_keywords are in non-increasing order of
\* weighted frequency, and those of equal weighted frequency in the order of
\* their first occurrence in the text.
C15_KeywordOrder ==
    (op = "extract_keywords" /\ ~Falsy(text) /\ Len(result) >= 2)
        => OrderedByWeight(KeywordWords(text), result)

\* two keywords of equal weighted frequency, the first with fewer occurrences
C15_Witness ==
    /\ op = "extract_keywords"
    /\ ~Falsy(text)
    /\ Len(result) = 2
    /\ LET words == KeywordWords(text)
       IN  /\ WeightedFreq(words, result[1]) = WeightedFreq(words, result[2])
           /\ CountIn(words, result[1]) < CountIn(words, result[2])

\* the text that simple_summarize is given
Given == IF op = "summarize_text" THEN handed ELSE text

\* simple_summarize has segmented the text it was given
Segmented == Summarized /\ ~Falsy(Given) /\ Len(Strip(Given)) >= MinTextLen

\* the sentences and the result are those of the fallback chain, filtered and
\* fallback being the sentences of the filtered split and of the split on '.'
FallbackChain(filtered, fallback) ==
    /\ filtered # <<>> => sentences = filtered
    /\ filtered = <<>> => sentences = fallback
    /\ result = SegmentationExhausted <=> (filtered = <<>> /\ fallback = <<>>)

\* C17: once the text has passed the length test, the sentences are those of the
\* filtered split whenever there is one, those of the split on '.' (more than
\* 15 characters) when the filtered split has none, and the result is the
\* SegmentationExhausted sentinel if and only if both have none.
C17_FallbackChain ==
    Segmented => FallbackChain(FilteredSplit(Given), PeriodSplit(Given))

\* the filtered split has no sentence and the summary is made of the sentences
\* of the split on '.'
C17_Witness ==
    /\ op = "simple_summarize"
    /\ Segmented
    /\ FilteredSplit(text) = <<>>
    /\ Len(sentences) >= 2
    /\ result \notin Sentinels

\* C18 (as the specification states it): the position weight in the score of
\* the sentence at index i (0-based) of N is 1.3 if i < 0.3 * N, 0.8 if
\* i > 0.7 * N and 1.0 otherwise, i being the index of that occurrence.
C18_OwnIndexWeight ==
    (Summarized /\ Len(sentences) > 0) =>
        \A k \in 1..Len(sentences) :
            PositionWeight(IndexOf(sentences, sentences[k]), Len(sentences))
              = (IF 10 * (k - 1) < 3 * Len(sentences) THEN 13
                 ELSE IF 10 * (k - 1) > 7 * Len(sentences) THEN 8
                 ELSE 10)

\* C19: the length weight in the score of a sentence of L characters is 1.2 for
\* 30 <= L <= 150, 0.7 for L < 20 or L > 200, and 1.0 for 20 <= L <= 29 and
\* 151 <= L <= 200.
C19_LengthWeight ==
    (Summarized /\ Len(sentences) > 0) =>
        \A k \in 1..Len(sentences) :
            LET L == Len(sentences[k])
            IN  /\ (30 <= L /\ L <= 150) => LengthWeight(L) = 12
                /\ (L < 20 \/ L > 200) => LengthWeight(L) = 7
                /\ ((20 <= L /\ L <= 29) \/ (151 <= L /\ L <= 200)) => LengthWeight(L) = 10

\* a summary of a sentence of 151 characters and one of more than 200
C19_Witness ==
    /\ op = "simple_summarize"
    /\ result \notin Sentinels
    /\ \E k \in 1..Len(sentences) : Len(sentences[k]) = 151
    /\ \E k \in 1..Len(sentences) : Len(sentences[k]) > 200

\* the terms of the sentences, sentence by sentence
TermsOfSentences ==
    Concat([k \in 1..Len(sentences) |-> ExtractTerms(sentences[k])], 1, Len(sentences))

\* the count of the term t in the frequency table of the terms all: the number
\* of its occurrences, 0 for a stop word and for a term that is not in the table
TermCount(all, t) ==
    IF Len(t) >= MinWordLen /\ t \notin SummaryStopWords THEN CountIn(all, t) ELSE 0

\* the sum of the counts of the terms ts
TermCounts(all, ts) == SumOf([j \in 1..Len(ts) |-> TermCount(all, ts[j])], 1, Len(ts))

\* score is base * position_weight * length_weight for the sentence x, and is
\* not negative
ScoredAs(score, base, x) ==
    /\ score = Product(base, PositionWeight(IndexOf(sentences, x), Len(sentences)),
                       LengthWeight(Len(x)))
    /\ score >= 0

\* the scores of the sentences are those of the formula, all being the terms of
\* the sentences and all_words the words that the table of the code counts
ScoresAs(all, all_words) ==
    \A k \in 1..Len(sentences) :
        ScoredAs(Score(sentences, all_words, sentences[k]),
                 TermCounts(all, ExtractTerms(sentences[k])), sentences[k])

\* C20: the score of a sentence is base * position_weight * length_weight, base
\* being the sum over the occurrences of terms in the sentence of the term's
\* count in the frequency table of all the sentences, 0 for a stop word and for
\* a term absent from the table; the score is not negative.
C20_ScoreFormula ==
    (Summarized /\ Len(sentences) > 0) =>
        ScoresAs(TermsOfSentences \o <<>>, ExtractTerms(Join(<<32>>, sentences)))

\* a scored sentence with a stop word among its terms and a base above 0
C20_Witness ==
    /\ op = "simple_summarize"
    /\ result \notin Sentinels
    /\ \E k \in 1..Len(sentences) :
          /\ \E j \in 1..Len(ExtractTerms(sentences[k])) :
                ExtractTerms(sentences[k])[j] \in SummaryStopWords
          /\ TermCounts(TermsOfSentences, ExtractTerms(sentences[k])) > 0

\* the result of the invocation of the frame f when it runs alone
ResultAlone(f) ==
    IF f.method = "simple_summarize" THEN simple_summarize(f.text, f.count).result
    ELSE extract_keywords(f.text, f.count)

\* every invocation that has returned has the result of a run alone
ResultsAsAlone ==
    \A c \in Callers : calls[c].pc = "done" => calls[c].result = ResultAlone(calls[c])

\* a step assigns the frame of one caller at most, and no step of an invocation
\* assigns an attribute of the TextProcessor
OneFrameAssigned ==
    /\ \A c, d \in Callers : (calls'[c] # calls[c] /\ calls'[d] # calls[d]) => c = d
    /\ op = "ready" => use_sumy' = use_sumy

\* C16: invocations of simple_summarize and extract_keywords on one
\* TextProcessor, on different inputs and interleaved in any order, each return
\* the result of a run alone, and a step of one invocation assigns nothing but
\* the local variables of that invocation.
C16_Isolation == [](ResultsAsAlone) /\ [][OneFrameAssigned]_vars

\* simple_summarize has returned a summary while an invocation of
\* extract_keywords that began before its last step is in progress
C16_Witness ==
    \E c, d \in Callers :
        /\ calls[c].method = "simple_summarize"
        /\ calls[c].pc = "done"
        /\ calls[c].result \notin Sentinels
        /\ calls[d].method = "extract_keywords"
        /\ calls[d].pc = "rank"

\* the texts of the entries of sentence_scores, in the order of their insertion
ScoredEntries == DictKeys(sentences)

\* C21 (as the specification states it): the scorer yields one scored entry per
\* sentence of the segmented sequence, in the order of the sequence and as many
\* as it has sentences, also when a sentence text occurs more than once.
C21_EntryPerSentence ==
    (Summarized /\ Len(sentences) > 0) => ScoredEntries = sentences

\* the sentence x is trimmed and passes the filter of lines 379-401: more than
\* 15 characters, no '기자' in its first 10, none of the filter markers
Admissible(x) == Strip(x) = x /\ KeepSentence(x)

\* C22 (as the specification states it): every sentence that the segmenter
\* hands to scoring, by the filtered split or by the fallback split on '.', is
\* trimmed, longer than 15 characters, has no '기자' in its first 10 characters
\* and contains none of the substrings of the filter list.
C22_SentencesAdmissible ==
    Segmented => \A k \in 1..Len(sentences) : Admissible(sentences[k])

\* no word of all_words is counted: the frequency table is empty
EmptyTable(all_words) == \A j \in 1..Len(all_words) : WordFreq(all_words, all_words[j]) = 0

\* every sentence scores 0 and the summary is made of the first
\* min(count, N) sentences, in their order
FirstSentences(all_words) ==
    /\ \A k \in 1..Len(sentences) : Score(sentences, all_words, sentences[k]) = 0
    /\ final = [k \in 1..(IF Len(sentences) < count THEN Len(sentences) ELSE count) |-> k]
    /\ result = Join(<<46, 32>>, Take(sentences, count)) \o <<46>>

\* the table is empty only if the summary is that of the first sentences
PositionalFallback(all_words) == EmptyTable(all_words) => FirstSentences(all_words)

\* C23: when the frequency table is empty (no term of the sentences is counted),
\* every sentence scores 0 and simple_summarize returns the summary of the first
\* min(max_sentences, N) sentences of the segmented sequence, in their order.
C23_PositionalFallback ==
    (Summarized /\ Len(sentences) > 0) =>
        PositionalFallback(ExtractTerms(Join(<<32>>, sentences)))

\* four sentences of stop words, one of them twice, and a summary of the first
\* two
C23_Witness ==
    /\ op = "simple_summarize"
    /\ text = StopWordsRepeated
    /\ Len(sentences) = 4
    /\ EmptyTable(ExtractTerms(Join(<<32>>, sentences)))
    /\ final = <<1, 2>>
    /\ result \notin Sentinels

\* the weighted frequency w meets the threshold of line 655
MeetsThreshold(words, w) == WeightedFreq(words, w) >= 2 * MinFrequency

\* the keys in descending order of weighted frequency, equal ones in their order
InDescendingOrder(words, keys) ==
    SortedByScoreDesc(keys, [k \in 1..Len(keys) |-> WeightedFreq(words, keys[k])])

\* the keys that meet the threshold, in descending order of weighted frequency,
\* truncated to top_k
ThresholdFirst(words, keys, top_k) ==
    Take(InDescendingOrder(words, SelectSeq(keys, LAMBDA w : MeetsThreshold(words, w))), top_k)

\* the result is that of the threshold applied before the truncation, and has
\* min(count, number of keys that meet the threshold) keywords
TruncationCommutes(words, keys) ==
    /\ result = ThresholdFirst(words, keys, count)
    /\ LET meeting == Cardinality({k \in 1..Len(keys) : MeetsThreshold(words, keys[k])})
       IN  Len(result) = IF meeting < count THEN meeting ELSE count

\* the same, of the words of the text and the keys of word_freq
TruncationCommutesFor(words) == TruncationCommutes(words, CountedWords(words))

\* C24: the result of extract_keywords (the ranking truncated to top_k, then the
\* terms below the threshold dropped) is the list obtained by dropping the
\* counted terms of final frequency below 2 first and truncating the ranking of
\* the others to top_k; its length is min(top_k, number of counted terms of
\* final frequency >= 2).
C24_TruncationCommutes ==
    (op = "extract_keywords" /\ ~Falsy(text)) => TruncationCommutesFor(KeywordWords(text))

\* the first counted term of the text is below the threshold and is ranked
\* within the first top_k, and the result is shorter than top_k
C24_Witness ==
    /\ op = "extract_keywords"
    /\ ~Falsy(text)
    /\ 1 <= Len(result)
    /\ Len(result) < count
    /\ Len(CountedWords(KeywordWords(text))) >= 2
    /\ Len(CountedWords(KeywordWords(text))) <= count
    /\ ~MeetsThreshold(KeywordWords(text), CountedWords(KeywordWords(text))[1])

\* the keyword ranker counts the word w
CountedAsKeyword(w) == Len(w) >= MinWordLen /\ w \notin KeywordStopWords

\* the words that the ranker counts are, with their numbers of occurrences,
\* the terms of the Term Extractor
SameTerms(words, terms) ==
    \A w \in Range(words) \cup Range(terms) :
        CountedAsKeyword(w) => CountIn(words, w) = CountIn(terms, w)

\* C25 (as the specification states it): the terms that extract_keywords counts
\* for a text are, with their numbers of occurrences, those that the Term
\* Extractor of the sentence scoring yields for that text (runs of 2 or more
\* Hangul characters, of 3 or more Latin letters, of digits): no token of more
\* than one script and no word of two Latin letters is counted.
C25_SameTermsAsScoring ==
    (op = "extract_keywords" /\ ~Falsy(text)) => SameTerms(KeywordWords(text), ExtractTerms(text))

\* the position weight, in tenths, in the score of the sentence at position k
WeightAt(k) == PositionWeight(IndexOf(sentences, sentences[k]), Len(sentences))

\* C26: in a segmented sequence of N >= 1 sentences the sentence at index 0 has
\* the position weight 1.3; for N <= 3 no sentence has the weight 0.8; and the
\* index that the weight of a sentence is computed from is never both below
\* 0.3 * N and above 0.7 * N.
C26_ShortSequenceWeights ==
    (Summarized /\ Len(sentences) > 0) =>
        /\ WeightAt(1) = 13
        /\ Len(sentences) <= 3 => \A k \in 1..Len(sentences) : WeightAt(k) # 8
        /\ \A k \in 1..Len(sentences) :
              ~ /\ 10 * IndexOf(sentences, sentences[k]) < 3 * Len(sentences)
                /\ 10 * IndexOf(sentences, sentences[k]) > 7 * Len(sentences)

\* a sequence of three distinct sentences: the first has the weight 1.3 and
\* the last, at index 2 <= 0.7 * 3, the weight 1.0
C26_Witness ==
    /\ op = "simple_summarize"
    /\ Len(sentences) = 3
    /\ ScoredEntries = sentences
    /\ WeightAt(1) = 13
    /\ WeightAt(3) = 10
    /\ result \notin Sentinels

\* the text of line 581: the one handed to the summarizer, and for a text that
\* line 494 rejects the one that lines 498-581 would have made of it
Normalized == IF Falsy(text) THEN text ELSE IF handed # <<>> THEN handed ELSE Preprocess(text)

\* C28: summarize_text returns the output of Sumy only if Sumy is available and
\* the output, which is returned trimmed, is longer than 20 characters and does
\* not contain '요약'; in every other case its result is that of
\* simple_summarize on the normalized text with the same sentence count.
C28_SumyOrFallback ==
    op = "summarize_text" =>
        /\ by_sumy =>
              /\ use_sumy
              /\ Strip(result) = result
              /\ Len(result) > MinSumyLen
              /\ ~Contains(result, SummaryWord)
        /\ ~by_sumy => result = simple_summarize(Normalized, count).result

\* Sumy is available and the result is the summary of simple_summarize, of a
\* text with a sentence that contains '요약'
C28_Witness ==
    /\ op = "summarize_text"
    /\ use_sumy
    /\ ~by_sumy
    /\ Contains(handed, SummaryWord)
    /\ result \notin Sentinels
    /\ Contains(result, SummaryWord)

\* the first position in the sequence of articles xs of an article of the link
FirstOfLink(xs, link) == Min({j \in 1..Len(xs) : xs[j].link = link})

\* the articles unique are those of collected without the repeated links: no
\* two have one link, every link of collected is the link of one of them, each
\* is the first article of its link in collected, and they are in the order of
\* collected
Deduplicated(collected, unique) ==
    /\ \A a, b \in 1..Len(unique) : unique[a].link = unique[b].link => a = b
    /\ \A j \in 1..Len(collected) :
          Cardinality({a \in 1..Len(unique) : unique[a].link = collected[j].link}) = 1
    /\ \A a \in 1..Len(unique) :
          /\ \E j \in 1..Len(collected) : collected[j].link = unique[a].link
          /\ unique[a] = collected[FirstOfLink(collected, unique[a].link)]
    /\ \A a, b \in 1..Len(unique) :
          a < b => FirstOfLink(collected, unique[a].link) < FirstOfLink(collected, unique[b].link)

\* C30: the list that get_all_rss_feeds returns has pairwise distinct links;
\* every link collected from a selected feed is in it exactly once, with the
\* first article collected for it; and its articles are in the order of their
\* collection.
C30_UniqueLinks ==
    op = "get_all_rss_feeds" => Deduplicated(rss.all_articles, rss.unique_articles)

\* a link collected from two feeds with two titles, after an article of
\* another link
C30_Witness ==
    /\ op = "get_all_rss_feeds"
    /\ Len(rss.unique_articles) = 2
    /\ \E j, k \in 1..Len(rss.all_articles) :
          /\ 1 < j
          /\ j < k
          /\ rss.all_articles[j].link = rss.all_articles[k].link
          /\ rss.all_articles[j].title # rss.all_articles[k].title
          /\ rss.all_articles[j].category # rss.all_articles[k].category

\* the results that stand for no summary
NoSummaryResults == {InsufficientInput, SegmentationExhausted, NoScores, NoSummary}

\* the content is what the crawler returns for a page it could not read: the
\* placeholder of line 303, or the message of lines 305-306
CrawlFailed(content) ==
    \/ content = NoContent
    \/ /\ Len(content) >= Len(CrawlErrorPrefix)
       /\ SubSeq(content, 1, Len(CrawlErrorPrefix)) = CrawlErrorPrefix

\* C27: for an article whose crawl raised or extracted no text, the summary that
\* a run of main stores is a sentinel and its list of keywords is empty.
C27_FailedCrawlNotAnalyzed ==
    \A k \in 1..Len(session_state.articles_data) :
        CrawlFailed(session_state.articles_data[k].content) =>
            /\ session_state.articles_data[k].summary \in NoSummaryResults
            /\ session_state.articles_data[k].keywords = <<>>

\* the value of a key of the session state is kept: a key the state has keeps
\* its value, and a key it has not is absent or has the value given
Kept(before, after, key, initial) ==
    IF key \in before.keys
    THEN key \in after.keys /\ after[key] = before[key]
    ELSE key \in after.keys => after[key] = initial

\* processing_complete is set and true
Complete(state) == "processing_complete" \in state.keys /\ state.processing_complete

\* a run that ends with one of the messages of a search without a result
SearchFailed == op' = "main" /\ shown' \in {NoArticles, NoKeywords, ErrorRaised}

\* processing_complete is true only with articles and with the keywords set
CompleteWithData ==
    Complete(session_state) =>
        /\ "articles_data" \in session_state.keys
        /\ session_state.articles_data # <<>>
        /\ "search_keywords" \in session_state.keys

\* processing_complete stays true, and a search without a result keeps the
\* three keys
RunKeepsState ==
    /\ Complete(session_state) => Complete(session_state')
    /\ SearchFailed =>
          /\ Kept(session_state, session_state', "articles_data", <<>>)
          /\ Kept(session_state, session_state', "processing_complete", FALSE)
          /\ "search_keywords" \in session_state'.keys <=> "search_keywords" \in session_state.keys
          /\ session_state'.search_keywords = session_state.search_keywords

\* C29: in every sequence of runs of main, processing_complete is true only if
\* articles_data is not empty and search_keywords is set; once true it stays
\* true; and a run whose search has no keywords, finds no article or raises
\* leaves articles_data, processing_complete and search_keywords as they were.
C29_SessionState == [](CompleteWithData) /\ [][RunKeepsState]_vars

\* a search that finds no article, after one that stored its articles
C29_Witness ==
    /\ op = "main"
    /\ shown = NoArticles
    /\ Complete(session_state)
    /\ session_state.articles_data # <<>>
    /\ session_state.search_keywords # <<>>
====
